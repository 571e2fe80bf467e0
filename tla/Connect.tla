------------------------------ MODULE Connect -------------------------------
(***************************************************************************)
(* Which functional words may follow which end of a clause (connect.c).    *)
(*                                                                         *)
(* A row is the set of the columns whose bit is set in it: the word class  *)
(* with code n is the n-th column (sj_connect.h names the columns, a row   *)
(* lists all of them, name_o where the bit is set and name_x elsewhere).   *)
(* rigtadr gives the row of each code of sj_right.h, connadr the code that *)
(* a word without inflection ends with.                                    *)
(*                                                                         *)
(* The rows for the ends of inflected words are in ConnectYougen.          *)
(***************************************************************************)
EXTENDS ConnectYougen

\* The columns in the order of their bits; "-" where a byte has room.
Columns == <<
  "wo", "ttatte", "ttara", "tte1", "tte2", "ppanasi", "ppoi", "ue", "uti",
  "oite", "okeru", "ori", "ka1", "ka2", "kai", "kasira", "katagata",
  "kadouka", "kana", "kane", "kamo", "kara1", "kara2", "ga1", "ga2", "gatera",
  "kiri", "kuseni", "kurai", "gurumi", "kedo", "koso", "koto", "sa2", "sae",
  "si2", "sika", "sura", "zutu", "zo", "tame", "dake", "dano", "darake",
  "tuite", "tuki", "tutu", "tumori", "te1", "te2", "teru", "dearou", "deru",
  "to1", "to2", "totte", "toiu", "toori", "toki", "tokoro", "tote", "tohaie",
  "tomo", "do", "doori", "dokoro", "dokoroka", "domo", "na1", "naa", "nagara",
  "nazo", "nado", "nari", "nanka", "nanzo", "nante", "ni1", "ni2", "ni3",
  "nite", "nimo", "ne1", "nee", "no1", "no2", "node", "noni", "nomi",
  "nominrz", "ha", "hazu", "ba", "bakari", "he", "hou", "hoka", "hodo",
  "made", "mama", "mo1", "mo2", "motte", "mono", "ya1", "ya2", "yara", "yue",
  "yo", "yori", "wa", "wake", "wane", "wayo", "nn1", "jya", "tya", "nagara2",
  "wo_s", "-", "ze", "kke", "n_si", "deha", "-", "-", "-", "-", "gotosi",
  "saseru", "zaru", "zu", "zunba", "seru", "souda", "youtai", "denbun", "ta",
  "tai", "tagaru", "taru", "da1", "da2", "daxtu", "darou", "de", "desi",
  "desho", "desu", "na2", "nara", "nai", "nu", "ne2", "nn2", "fuuda", "besi",
  "mai", "masu", "masure", "mase", "mitaida", "you", "youda", "rasii",
  "rareru", "reru", "site", "yougen", "aru", "ara", "ari1", "ari2", "ari3",
  "are1", "are2", "arou", "ii", "itasi", "itadaku", "iru", "eru", "kakeru",
  "kaneru", "karazu", "gatai", "gatida", "kudasaru", "gozai", "sa1", "si1",
  "siro", "jyau", "jimau", "sugiru", "subesi", "suru", "sure", "se", "seyo",
  "tamau", "tayu", "timau", "dekiru", "naru", "nasai", "nasaru", "nikui",
  "yasui", "yoi", "yaru", "ttarasii">>

-----------------------------------------------------------------------------
meisi == {
  "wo", "ttara", "tte1", "ppoi", "ka1", "kasira", "kadouka", "kana", "kane",
  "kamo", "kara1", "ga1", "kiri", "kurai", "gurumi", "koso", "sa2", "sae",
  "sika", "sura", "zutu", "zo", "dake", "dano", "darake", "to1", "toiu",
  "tote", "tohaie", "doori", "dokoro", "dokoroka", "naa", "nagara", "nazo",
  "nado", "nari", "nanka", "nanzo", "nante", "ni1", "nite", "ne1", "nee",
  "no1", "nomi", "nominrz", "ha", "bakari", "he", "hodo", "made", "mo2",
  "ya1", "yara", "yo", "yori", "wane", "jya", "taru", "da2", "daxtu", "darou",
  "de", "desi", "desho", "desu", "na2", "nara", "mitaida", "rasii"}
wo_meisi == {
  "ttara", "tte1", "ppoi", "ka1", "kasira", "kadouka", "kana", "kane", "kamo",
  "kara1", "ga1", "kiri", "kurai", "gurumi", "koso", "sa2", "sae", "sika",
  "sura", "zutu", "zo", "dake", "dano", "darake", "to1", "toiu", "tote",
  "tohaie", "doori", "dokoro", "dokoroka", "naa", "nagara", "nazo", "nado",
  "nari", "nanka", "nanzo", "nante", "ni1", "nite", "ne1", "nee", "no1",
  "nomi", "nominrz", "ha", "bakari", "he", "hodo", "made", "mo2", "ya1",
  "yara", "yo", "yori", "wane", "jya", "wo_s", "taru", "da2", "daxtu",
  "darou", "de", "desi", "desho", "desu", "na2", "nara", "mitaida", "rasii"}
dmeisi == {
  "wo", "ttara", "tte1", "ppoi", "ka1", "kasira", "kadouka", "kana", "kane",
  "kamo", "kara1", "ga1", "kurai", "gurumi", "koso", "sa2", "sae", "sika",
  "sura", "zutu", "zo", "dake", "dano", "darake", "to1", "toiu", "tote",
  "tohaie", "dokoro", "dokoroka", "naa", "nagara", "nazo", "nado", "nari",
  "nanka", "nanzo", "nante", "nite", "ne1", "nee", "no1", "nomi", "nominrz",
  "ha", "bakari", "he", "hodo", "made", "mo2", "ya1", "yara", "yo", "yori",
  "wane", "jya", "souda", "youtai", "taru", "desi", "desho", "desu",
  "mitaida", "rasii", "ttarasii"}
smeisi1 == {
  "ttara", "tte1", "ppoi", "ka1", "kasira", "katagata", "kadouka", "kana",
  "kane", "kamo", "kara1", "ga1", "gatera", "kurai", "gurumi", "koso", "sa2",
  "sae", "sika", "sura", "zutu", "zo", "dake", "dano", "darake", "to1",
  "toiu", "tote", "tohaie", "doori", "dokoro", "dokoroka", "naa", "nazo",
  "nado", "nari", "nanka", "nanzo", "nante", "ni1", "nite", "ne1", "nee",
  "no1", "nomi", "nominrz", "ha", "bakari", "he", "hodo", "made", "mo2",
  "ya1", "yara", "yo", "yori", "wane", "jya", "wo_s", "taru", "da2", "daxtu",
  "darou", "de", "desi", "desho", "desu", "na2", "nara", "mitaida", "rasii",
  "itasi", "subesi", "dekiru"}
smeisi2 == {
  "ttara", "tte1", "ka1", "kasira", "katagata", "kadouka", "kana", "kane",
  "kamo", "kara1", "ga1", "kurai", "gurumi", "koso", "sa2", "sae", "sika",
  "sura", "zutu", "zo", "dake", "dano", "darake", "to1", "toiu", "tote",
  "tohaie", "doori", "dokoro", "dokoroka", "naa", "nazo", "nado", "nari",
  "nanka", "nanzo", "nante", "ni1", "nite", "ne1", "nee", "no1", "nomi",
  "nominrz", "ha", "bakari", "he", "hodo", "made", "mo2", "ya1", "yara", "yo",
  "yori", "wane", "jya", "wo_s", "taru", "da2", "daxtu", "darou", "de",
  "desi", "desho", "desu", "na2", "nara", "mitaida", "rasii", "itasi",
  "itadaku", "kudasaru", "subesi", "dekiru"}
kstb == {"souda", "youtai", "karazu", "sugiru"}
ichisetubi == {
  "wo", "ttara", "tte1", "ppanasi", "ppoi", "ka1", "kasira", "kadouka",
  "kana", "kane", "kamo", "kara1", "ga1", "kurai", "sa2", "sae", "sura",
  "dake", "dano", "te2", "teru", "to1", "toiu", "tote", "tohaie", "dokoro",
  "dokoroka", "naa", "nazo", "nado", "nari", "nanka", "nanzo", "nante", "ni1",
  "ni2", "ne1", "nee", "no1", "nomi", "nominrz", "ha", "bakari", "he", "hodo",
  "made", "mo2", "ya1", "yara", "yue", "yo", "yori", "jya", "tya", "saseru",
  "zaru", "zu", "zunba", "souda", "youtai", "ta", "tai", "tagaru", "da2",
  "daxtu", "darou", "de", "desi", "desho", "desu", "na2", "nara", "nai", "nu",
  "ne2", "nn2", "mai", "masu", "masure", "mitaida", "you", "rasii", "rareru",
  "gatai", "gatida", "tayu", "timau", "nasai", "nasaru", "nikui", "yasui"}
josuusi == {
  "wo", "ttara", "tte1", "ka1", "kasira", "kadouka", "kana", "kane", "kamo",
  "kara1", "ga1", "kiri", "kurai", "gurumi", "koso", "sa2", "sae", "sika",
  "sura", "zutu", "zo", "dake", "dano", "darake", "to1", "toiu", "tote",
  "tohaie", "dokoro", "dokoroka", "naa", "nazo", "nado", "nari", "nanka",
  "nanzo", "nante", "ni1", "nite", "ne1", "nee", "no1", "nomi", "nominrz",
  "ha", "bakari", "he", "hodo", "made", "mo2", "mono", "ya1", "yara", "yo",
  "yori", "wane", "jya", "taru", "da2", "daxtu", "darou", "de", "desi",
  "desho", "desu", "na2", "nara", "mitaida", "rasii"}
rentaisi == {"koto", "tame", "mono", "fuuda", "youda"}
cut == {}
shuujo == {
  "ttatte", "ttara", "tte1", "dano", "to2", "toiu", "tohaie", "nazo", "nado",
  "nanka", "nanzo", "nante"}
wo == {
  "ka2", "kana", "kane", "sa2", "toiu", "tohaie", "na1", "naa", "ne1", "nee",
  "mo1", "motte", "yara", "yo", "rasii", "rareru"}
wo_s == {
  "ka2", "kana", "kane", "sa2", "toiu", "tohaie", "na1", "naa", "ne1", "nee",
  "mo1", "motte", "yara", "yo", "rasii", "rareru", "sa1", "si1", "siro",
  "subesi", "suru", "sure", "se", "seyo"}
ttatte == {"sa2", "na1", "naa", "ne1", "nee"}
ttara == {"sa2", "na1", "naa", "ne1", "nee"}
tte1 == {"sa2", "na1", "naa", "ne1", "nee", "yo"}
tte2 == {"sa2", "na1", "naa", "ne1", "nee", "mo1"}
ppanasi == {
  "wo", "ttatte", "ttara", "tte1", "ka1", "kasira", "kadouka", "kana", "kane",
  "kamo", "kara1", "ga1", "kurai", "koso", "sa2", "sae", "sika", "sura",
  "dake", "dano", "to2", "toiu", "tote", "tohaie", "dokoro", "dokoroka",
  "nazo", "nado", "nari", "nanka", "nanzo", "nante", "ni1", "ne1", "nee",
  "no1", "nomi", "nominrz", "ha", "bakari", "he", "hodo", "made", "mo2",
  "ya1", "yara", "yo", "yori", "wane", "jya", "deha", "da2", "daxtu", "darou",
  "de", "desi", "desho", "desu", "na2", "nara", "mitaida", "rasii"}
ppoi == {
  "ttatte", "ttara", "tte1", "ue", "uti", "ka1", "kasira", "kadouka", "kana",
  "kane", "kamo", "kara2", "ga2", "kuseni", "kurai", "kedo", "koto", "sa2",
  "si2", "sika", "zo", "tame", "dake", "dano", "tumori", "dearou", "to2",
  "toiu", "toki", "tokoro", "tote", "tohaie", "dokoro", "dokoroka", "na1",
  "naa", "nazo", "nado", "nari", "nanka", "nanzo", "nante", "ni3", "ne1",
  "nee", "no2", "node", "noni", "nomi", "nominrz", "hazu", "bakari", "hou",
  "hoka", "hodo", "made", "mo1", "mono", "yara", "yue", "yo", "yori", "wa",
  "wake", "wane", "wayo", "nn1", "jya", "deha", "souda", "youtai", "darou",
  "desi", "desho", "desu", "mitaida", "youda", "rasii"}
ue == {"tte1", "ni1", "de"}
uti == {
  "tte1", "ka1", "kasira", "kadouka", "kana", "kane", "kamo", "kara1", "ga1",
  "sa2", "sae", "sika", "sura", "dake", "dano", "to2", "toiu", "tote",
  "tohaie", "dokoro", "dokoroka", "nazo", "nado", "nari", "nanka", "nanzo",
  "nante", "ni1", "ne1", "nee", "ha", "mo1", "yara", "yo", "yori", "wane",
  "jya", "deha", "da2", "daxtu", "darou", "de", "desi", "desho", "desu",
  "na2", "nara", "rasii"}
oite == {
  "koso", "sa2", "sae", "sika", "sura", "dake", "nomi", "nominrz", "ha",
  "mo1", "jya"}
okeru == {}
ori == {
  "koso", "sae", "sika", "sura", "dake", "to1", "ni1", "ha", "mo1", "da2",
  "daxtu", "darou", "de", "desi", "desho", "desu", "na2", "nara"}
ka1 == {
  "wo", "ga1", "sae", "sika", "sura", "dake", "dano", "to2", "toiu", "naa",
  "nazo", "nado", "nanka", "nanzo", "nante", "ni1", "no1", "nomi", "nominrz",
  "ha", "he", "jya", "deha", "da2", "daxtu", "darou", "de", "desi", "desho",
  "desu", "na2", "nara", "rasii"}
ka2 == {
  "wo", "to2", "toiu", "tohaie", "naa", "nazo", "nado", "nanka", "nanzo",
  "nante", "ne1", "nee", "jya", "deha"}
katagata == {"ni1", "de"}
kadouka == {
  "wo", "ttatte", "tte1", "ga1", "sae", "sika", "dake", "dano", "to2", "nazo",
  "nado", "nanka", "nanzo", "nante", "ni3", "no1", "nomi", "nominrz", "ha",
  "made", "mo1", "yori", "jya", "deha", "da2", "daxtu", "darou", "de", "desi",
  "desho", "desu", "na2", "nara", "rasii"}
kamo == {}
kara1 == {
  "tte1", "ka1", "kasira", "kadouka", "kana", "kane", "kamo", "ga1", "koso",
  "sa2", "sae", "sika", "dake", "dano", "to2", "toiu", "tote", "tohaie",
  "dokoroka", "nazo", "nado", "nari", "nanka", "nanzo", "nante", "ni1", "ne1",
  "nee", "no1", "ha", "bakari", "mo1", "ya1", "yo", "yori", "wane", "jya",
  "deha", "da2", "daxtu", "darou", "de", "desi", "desho", "desu", "na2",
  "nara"}
kara2 == {
  "ttatte", "tte1", "ka1", "kasira", "kadouka", "kana", "kane", "kamo",
  "koso", "sa2", "dano", "to2", "toiu", "tote", "tohaie", "na1", "naa",
  "nazo", "nado", "nanka", "nanzo", "nante", "ni3", "ne1", "nee", "yo",
  "yori", "jya", "deha", "da2", "daxtu", "darou", "de", "desi", "desho",
  "desu", "na2", "nara", "mitaida", "rasii"}
ga1 == {
  "nazo", "nado", "ne1", "nee", "nai", "aru", "ara", "ari2", "are2", "ii",
  "gozai", "sa1", "si1", "siro", "subesi", "suru", "sure", "se", "seyo"}
ga2 == {"ne1", "nee", "yue", "gotosi", "ii"}
gatera == {"ni3", "no1", "ha", "mo1", "de"}
kiri == {
  "tomo", "no1", "yo", "da2", "daxtu", "darou", "de", "desi", "desho", "desu",
  "na2", "nara", "mitaida"}
kuseni == {"sa2", "na1", "naa", "ne1", "nee", "yo"}
kurai == {
  "wo", "tte1", "ka1", "kasira", "kadouka", "kana", "kane", "kamo", "kara1",
  "ga1", "koso", "sa2", "sae", "sika", "dake", "dano", "to1", "toiu",
  "tohaie", "tomo", "na1", "naa", "nanka", "nanzo", "nante", "ni1", "ne1",
  "nee", "no1", "ha", "made", "mo1", "ya1", "yara", "yo", "yori", "wane",
  "jya", "da2", "daxtu", "darou", "de", "desi", "desho", "desu", "na2",
  "nara", "mitaida", "rasii"}
gurumi == {
  "wo", "ka1", "kasira", "kadouka", "kana", "kane", "kamo", "kara1", "ga1",
  "koso", "sa2", "sae", "sika", "sura", "dake", "dano", "to2", "toiu",
  "tohaie", "dokoro", "dokoroka", "naa", "nazo", "nado", "nari", "nanka",
  "nanzo", "ni1", "ne1", "nee", "nomi", "nominrz", "ha", "hodo", "made",
  "mo1", "ya1", "yara", "yue", "yo", "yori", "wane", "jya", "deha", "da2",
  "daxtu", "darou", "de", "desi", "desho", "desu", "na2", "nara", "mitaida",
  "rasii"}
kedo == {"sa2", "toiu", "tohaie", "na1", "naa", "ne1", "nee"}
koso == {"wo", "ga1", "to1", "ha", "darou"}
koto == {
  "tte1", "ka1", "kasira", "kadouka", "kana", "kane", "kamo", "kara1", "ga1",
  "kurai", "koso", "sa2", "sae", "sika", "sura", "zo", "dake", "dano", "to2",
  "toiu", "tohaie", "dokoro", "dokoroka", "naa", "nagara", "nazo", "nado",
  "nari", "nanka", "nanzo", "nante", "ni1", "ne1", "nee", "no1", "nomi",
  "nominrz", "ha", "bakari", "he", "hodo", "made", "mo1", "ya1", "yara", "yo",
  "yori", "wane", "wo_s", "deha", "da2", "daxtu", "darou", "de", "desi",
  "desho", "desu", "na2", "nara", "nai", "mitaida", "rasii"}
sae == {
  "mo1", "nai", "aru", "ara", "ari2", "are2", "sa1", "si1", "siro", "suru",
  "sure", "se", "seyo"}
si2 == {"sa2", "naa", "ne1", "nee"}
sika == {"sa2", "ne1", "nee", "nai"}
sura == {"ga1", "mo1", "nai"}
zutu == {
  "wo", "tte1", "ka1", "kasira", "kadouka", "kana", "kane", "kamo", "kara1",
  "ga1", "kurai", "sa2", "sae", "sika", "dano", "to1", "toiu", "tohaie",
  "dokoro", "dokoroka", "nazo", "nado", "nari", "nanka", "nanzo", "nante",
  "ni1", "ne1", "nee", "no1", "ha", "mo1", "ya1", "yara", "yue", "yo", "yori",
  "wane", "jya", "da2", "daxtu", "darou", "de", "desi", "desho", "desu",
  "na2", "nara", "nai", "mitaida", "rasii", "aru", "ara", "ari2", "are2",
  "arou", "gozai"}
tame == {
  "wo", "tte1", "ka1", "kasira", "kadouka", "kana", "kane", "kamo", "kurai",
  "koso", "sa2", "sae", "sika", "sura", "dake", "dano", "to2", "toiu", "tote",
  "tohaie", "dokoro", "dokoroka", "naa", "nazo", "nado", "nari", "nanka",
  "nanzo", "nante", "ni1", "ne1", "nee", "no1", "nomi", "nominrz", "bakari",
  "yara", "yori", "jya", "deha", "da2", "daxtu", "darou", "de", "desi",
  "desho", "desu", "na2", "nara", "mitaida", "rasii"}
tari == {
  "kurai", "sa2", "sae", "sika", "sura", "dake", "dano", "toiu", "tohaie",
  "dokoro", "dokoroka", "nazo", "nado", "nari", "nanka", "nanzo", "nante",
  "nomi", "nominrz", "ha", "bakari", "mo2", "yori", "jya", "da2", "daxtu",
  "darou", "de", "desi", "desho", "desu", "na2", "nara", "sa1", "si1", "siro",
  "suru", "sure", "se", "seyo", "dekiru", "nasai", "nasaru"}
dake == {
  "wo", "ttatte", "ttara", "tte1", "ka1", "kasira", "kadouka", "kana", "kane",
  "kamo", "kara1", "ga1", "sa2", "sae", "sika", "dano", "to1", "toiu", "tote",
  "tohaie", "na1", "naa", "nazo", "nado", "nari", "nanka", "nanzo", "nante",
  "ni1", "ne1", "nee", "no1", "ha", "ya1", "yara", "yo", "jya", "da2",
  "daxtu", "darou", "de", "desi", "desho", "desu", "na2", "nara", "mitaida",
  "rasii", "aru", "ara", "ari2", "are2", "arou"}
dano == {
  "wo", "kara1", "ga1", "sa2", "sae", "sika", "sura", "dake", "to1", "nazo",
  "nado", "nanka", "nanzo", "nante", "ni1", "ne1", "nee", "ha", "bakari",
  "made", "mo1", "yo", "yori", "jya", "darou", "de", "desi", "desho", "desu",
  "nara"}
darake == {
  "wo", "tte1", "kasira", "kadouka", "kana", "kane", "kamo", "kara1", "ga1",
  "sa2", "dano", "to2", "toiu", "tote", "tohaie", "nazo", "nado", "nanka",
  "nanzo", "nante", "ni1", "ne1", "nee", "no1", "ha", "mo1", "ya1", "yara",
  "yo", "yori", "wane", "jya", "deha", "da2", "daxtu", "darou", "de", "desi",
  "desho", "desu", "na2", "nara", "mitaida", "rasii"}
tuite == {
  "ka1", "kasira", "kana", "kane", "kamo", "kurai", "sa2", "sae", "sika",
  "dake", "dano", "to1", "nazo", "nado", "nanka", "nanzo", "nante", "ne1",
  "nee", "no1", "nomi", "nominrz", "ha", "bakari", "mo1", "ya1", "yara", "yo",
  "yori", "wane", "jya", "da2", "daxtu", "darou", "de", "desi", "desho",
  "desu", "na2", "nara"}
tuki == {}
tutu == {
  "sa2", "sae", "ne1", "nee", "mo2", "yo", "wane", "jya", "nara", "mitaida",
  "rasii", "aru", "ara", "ari3", "are2", "arou"}
tumori == {
  "tte1", "ka1", "kasira", "kadouka", "kana", "kane", "kamo", "ga1", "kurai",
  "koso", "sa2", "sae", "sika", "sura", "dake", "dano", "to1", "toiu",
  "tohaie", "dokoro", "dokoroka", "nazo", "nado", "nanka", "nanzo", "nante",
  "ne1", "nee", "ha", "made", "mo1", "yo", "yori", "jya", "da2", "daxtu",
  "darou", "de", "desi", "desho", "desu", "na2", "nara", "rasii"}
te1 == {"sa2", "naa", "ne1", "nee", "ha", "mo1", "jya"}
te2 == {
  "tte2", "kara1", "koso", "sa2", "sae", "sika", "sura", "ne1", "no1", "ha",
  "bakari", "made", "mo2", "yo", "tya", "souda", "youtai", "ta", "de", "nai",
  "mai", "masu", "masure", "yougen", "aru", "ara", "ari2", "are2", "arou",
  "ii", "itadaku", "iru", "kudasaru", "nasai"}
teru == {
  "tte1", "ue", "uti", "ka1", "kai", "kasira", "kadouka", "kana", "kane",
  "kamo", "kara2", "ga2", "kuseni", "kurai", "kedo", "koto", "sa2", "si2",
  "sika", "dake", "dano", "tumori", "dearou", "to2", "toiu", "tokoro",
  "tohaie", "dokoro", "dokoroka", "na1", "naa", "nazo", "nado", "nanka",
  "nanzo", "nante", "ne1", "nee", "no2", "node", "noni", "hazu", "bakari",
  "hou", "hoka", "hodo", "mo1", "mono", "yara", "yo", "yori", "wa", "wake",
  "wane", "wayo", "nn1", "jya", "deha", "souda", "denbun", "darou", "desho",
  "nara", "mitaida", "youda", "rasii"}
to1 == {
  "wo", "ka1", "kasira", "kadouka", "kana", "kane", "kamo", "ga1", "sae",
  "sika", "dake", "na1", "naa", "nazo", "nado", "nanka", "nanzo", "nante",
  "ni1", "ne1", "nee", "no1", "nomi", "nominrz", "ha", "bakari", "mo1",
  "yara", "yo", "wane", "da2", "daxtu", "darou", "desi", "desho", "desu",
  "nara", "si1", "siro", "suru", "sure", "se", "seyo", "naru"}
to2 == {
  "ka1", "kasira", "kana", "kane", "sae", "sika", "sura", "dake", "na1",
  "naa", "nazo", "nado", "nanka", "nanzo", "nante", "ne1", "nee", "no1",
  "nomi", "nominrz", "ha", "bakari", "made", "mo1", "wane", "sa1", "si1",
  "siro", "suru", "sure", "se", "seyo", "naru"}
totte == {"na1", "naa", "ne1", "nee", "no1", "ha", "mo1", "yo", "wane", "jya"}
toiu == {
  "ka1", "kadouka", "kara2", "ga2", "kuseni", "kurai", "kedo", "koto", "si2",
  "sika", "dake", "tumori", "dokoro", "dokoroka", "ni3", "nimo", "no2",
  "node", "noni", "hoka", "hodo", "made", "mono", "yue", "wake"}
toori == {
  "tte1", "ka1", "kasira", "kadouka", "kana", "kane", "kamo", "ga1", "sa2",
  "sika", "to1", "toiu", "tohaie", "dokoro", "dokoroka", "nante", "ni1",
  "ne1", "nee", "no1", "nomi", "ha", "mo1", "ya1", "yo", "da2", "daxtu",
  "darou", "de", "desi", "desho", "desu", "na2", "nara", "mitaida", "rasii"}
toki == {
  "wo", "tte1", "ka1", "kasira", "kadouka", "kana", "kane", "kamo", "kara1",
  "ga1", "kurai", "sa2", "sae", "sika", "sura", "dake", "dano", "to1", "toiu",
  "tohaie", "dokoro", "dokoroka", "nazo", "nado", "nanka", "nanzo", "nante",
  "ni1", "ne1", "nee", "no1", "nomi", "nominrz", "ha", "bakari", "he", "made",
  "mo2", "ya1", "yara", "yo", "yori", "jya", "da2", "daxtu", "darou", "de",
  "desi", "desho", "desu", "na2", "nara", "mitaida", "rasii"}
tokoro == {
  "wo", "tte1", "ka1", "kasira", "kadouka", "kana", "kane", "kamo", "kara1",
  "ga1", "kurai", "sa2", "sae", "sika", "sura", "to1", "toiu", "tohaie",
  "dokoro", "dokoroka", "nazo", "nado", "nanka", "nanzo", "nante", "ni1",
  "ne1", "nee", "no1", "nomi", "ha", "bakari", "he", "made", "mo2", "ya1",
  "yara", "yo", "yori", "jya", "da2", "daxtu", "darou", "de", "desi", "desho",
  "desu", "na2", "nara", "mitaida", "rasii"}
tote == {}
tohaie == {}
tomo == {}
fdo == {"ne1", "nee"}
doori == {
  "wo", "tte1", "ka1", "kasira", "kadouka", "kana", "kane", "kamo", "kara1",
  "ga1", "sa2", "sae", "sika", "sura", "to1", "toiu", "tohaie", "dokoro",
  "dokoroka", "nante", "ni1", "ne1", "nee", "no1", "ha", "mo1", "ya1", "yara",
  "yo", "yori", "jya", "da2", "daxtu", "darou", "de", "desi", "desho", "desu",
  "na2", "nara", "mitaida", "rasii"}
dokoro == {"no1", "de"}
dokoroka == {"ne1", "nee"}
domo == {"ne1", "nee"}
nagara == {
  "tte1", "ka1", "kasira", "kadouka", "kana", "kane", "kamo", "kurai", "sa2",
  "sae", "sika", "dake", "dano", "to2", "toiu", "tohaie", "dokoro",
  "dokoroka", "nazo", "nado", "nanka", "nanzo", "nante", "ni1", "ne1", "nee",
  "no1", "nomi", "nominrz", "ha", "bakari", "hodo", "made", "mo1", "ya1",
  "yue", "yo", "yori", "wane", "jya", "deha", "da2", "daxtu", "darou", "de",
  "desi", "desho", "desu", "na2", "nara", "mitaida", "rasii"}
nagara2 == {
  "tte1", "ka1", "kasira", "kadouka", "kana", "kane", "kamo", "kurai", "sa2",
  "sae", "sika", "dake", "dano", "to2", "toiu", "tohaie", "dokoro",
  "dokoroka", "nazo", "nado", "nanka", "nanzo", "nante", "ni1", "ne1", "nee",
  "no1", "nomi", "nominrz", "ha", "bakari", "hodo", "made", "mo1", "ya1",
  "yue", "yo", "yori", "wane", "jya", "deha", "da2", "daxtu", "darou", "de",
  "desi", "desho", "desu", "na2", "nara", "mitaida", "rasii"}
nazo == {
  "wo", "tte1", "kara1", "ga1", "kurai", "sa2", "sae", "sika", "to1", "toiu",
  "tohaie", "ni1", "ne1", "nee", "no1", "ha", "he", "made", "mo1", "wane",
  "de"}
nado == {
  "wo", "ttara", "tte1", "ka1", "kasira", "kadouka", "kana", "kane", "kamo",
  "kara1", "ga1", "kurai", "koso", "sa2", "sae", "sika", "sura", "dake",
  "to1", "toiu", "tohaie", "ni1", "ne1", "nee", "no1", "ha", "bakari", "he",
  "made", "mo1", "ya1", "yara", "yo", "wane", "jya", "da2", "daxtu", "darou",
  "de", "desi", "desho", "desu", "na2", "nara", "rasii"}
nari == {
  "wo", "kara1", "ga1", "sae", "sika", "dake", "dano", "to1", "ni1", "no1",
  "he", "de"}
nanka == {
  "wo", "kara1", "ga1", "sa2", "sae", "sika", "dake", "to1", "na1", "ni3",
  "ne1", "nee", "no1", "ha", "he", "mo1", "ya1", "da2", "de", "nai"}
nanzo == {"wo", "kara1", "ga1", "to1", "ni1", "no1", "ha", "he", "de", "nai"}
nante == {"sa2", "na1", "naa", "ne1", "nee", "yo", "nai"}
ni1 == {
  "oite", "okeru", "kasira", "kadouka", "kana", "kane", "kamo", "kurai",
  "koso", "sa2", "sae", "sika", "sura", "dake", "dano", "tuite", "tuki",
  "to1", "totte", "na1", "naa", "nazo", "nado", "nari", "nanka", "nanzo",
  "nante", "ne1", "nee", "nomi", "nominrz", "ha", "bakari", "made", "mo2",
  "yara", "yo", "wane", "n_si", "deha", "nara", "nai", "aru", "ara", "ari2",
  "are2", "arou", "iru", "sa1", "siro", "subesi", "suru", "sure", "se",
  "seyo", "naru", "yaru"}
ni2 == {
  "sae", "sika", "sura", "dake", "to2", "nazo", "nado", "nanka", "nanzo",
  "nante", "ha", "bakari", "made", "mo1", "yara", "deha"}
ni3 == {"ha", "mo1", "site"}
nite == {}
nimo == {"sa2", "ne1", "nee"}
no1 == {
  "wo", "uti", "ka1", "kasira", "kadouka", "kana", "kane", "kamo", "kara1",
  "ga1", "kuseni", "kurai", "koso", "koto", "sa2", "sae", "sika", "sura",
  "tame", "dake", "dano", "to1", "toiu", "toki", "tokoro", "tohaie", "dokoro",
  "dokoroka", "nazo", "nado", "nari", "nanka", "nanzo", "nante", "ni1", "ne1",
  "nee", "nomi", "nominrz", "ha", "bakari", "he", "hodo", "made", "mama",
  "mo1", "mono", "ya1", "yara", "yo", "yori", "wane", "jya", "gotosi", "da2",
  "daxtu", "darou", "de", "desi", "desho", "desu", "na2", "nara", "mitaida",
  "youda", "rasii", "subesi"}
no2 == {
  "wo", "ka1", "kasira", "kadouka", "kana", "kane", "kamo", "kara1", "ga1",
  "koso", "sa2", "sae", "sika", "sura", "dake", "dano", "to1", "dokoro",
  "dokoroka", "nazo", "nado", "nari", "nanka", "nanzo", "nante", "ne1", "nee",
  "ha", "bakari", "mo1", "ya1", "yara", "yo", "yori", "wane", "jya", "da2",
  "daxtu", "darou", "desi", "desho", "desu", "na2", "nara"}
node == {
  "sae", "to2", "toiu", "tohaie", "ha", "mo2", "nai", "aru", "ari3", "are2",
  "arou"}
noni == {"to2", "toiu", "tohaie", "ha", "mo1"}
nomi == {
  "wo", "ttara", "tte1", "kasira", "kadouka", "kana", "kane", "kamo", "kara1",
  "ga1", "sa2", "sika", "dano", "to1", "toiu", "tohaie", "dokoro", "dokoroka",
  "nazo", "nado", "nanka", "nanzo", "nante", "ni1", "ne1", "nee", "no1", "ha",
  "bakari", "he", "made", "mo1", "ya1", "yara", "yue", "yo", "wane", "jya",
  "da2", "daxtu", "darou", "de", "desi", "desho", "desu", "na2", "nara",
  "mitaida", "rasii"}
nominrz == {}
ha == {
  "sa2", "ne1", "nee", "nai", "aru", "ara", "ari2", "are2", "arou", "ii",
  "sa1", "siro", "suru", "sure", "se", "seyo"}
hazu == {
  "tte1", "kana", "kane", "ga1", "sa2", "to1", "toiu", "tohaie", "dokoro",
  "dokoroka", "nazo", "nado", "nanka", "nanzo", "nante", "ne1", "nee", "no1",
  "ha", "mo1", "yo", "jya", "da2", "daxtu", "darou", "de", "desi", "desho",
  "desu", "na2", "nara", "rasii"}
ba == {"sa2", "to1", "toiu", "tohaie", "na1", "naa", "ne1", "nee"}
bakari == {
  "wo", "tte1", "ka1", "kasira", "kadouka", "kana", "kane", "kamo", "kara1",
  "ga1", "sa2", "sika", "to1", "toiu", "tohaie", "nanka", "nanzo", "nante",
  "ni1", "ne1", "nee", "no1", "ha", "he", "mo1", "yue", "yo", "jya", "da2",
  "daxtu", "darou", "de", "desi", "desho", "desu", "na2", "nara", "mitaida",
  "rasii", "aru", "ara", "ari2", "are2", "arou", "iru"}
he == {
  "kasira", "kadouka", "kana", "kane", "sa2", "sae", "sika", "sura", "dake",
  "dano", "to1", "dokoroka", "na1", "naa", "nazo", "nado", "nanka", "nanzo",
  "nante", "ne1", "nee", "no1", "ha", "mo1", "yara", "yo", "nara"}
hou == {
  "wo", "tte1", "ka1", "kasira", "kadouka", "kana", "kane", "kamo", "kara1",
  "ga1", "sa2", "sae", "sika", "sura", "dake", "dano", "to1", "toiu",
  "tohaie", "dokoro", "dokoroka", "nazo", "nado", "nari", "nanka", "nanzo",
  "nante", "ni1", "ne1", "nee", "no1", "ha", "bakari", "he", "made", "mo1",
  "ya1", "yara", "yo", "yori", "jya", "da2", "daxtu", "darou", "de", "desi",
  "desho", "desu", "na2", "nara", "mitaida", "rasii"}
hoka == {"ni1", "ha", "mo1", "ya1"}
hodo == {
  "ka1", "kasira", "kadouka", "kana", "kane", "kamo", "sa2", "sika", "to1",
  "toiu", "tohaie", "ni1", "ne1", "nee", "no1", "ha", "made", "mo1", "jya",
  "da2", "daxtu", "darou", "de", "desi", "desho", "desu", "na2", "nara",
  "rasii"}
made == {
  "wo", "ttara", "tte1", "ka1", "kasira", "kadouka", "kana", "kane", "kamo",
  "ga1", "kurai", "sa2", "sae", "sika", "sura", "zo", "dake", "dano", "to1",
  "toiu", "tohaie", "dokoro", "dokoroka", "na1", "naa", "nazo", "nado",
  "nari", "nanka", "nanzo", "nante", "ni1", "ne1", "nee", "no1", "nomi",
  "nominrz", "ha", "bakari", "mo2", "ya1", "yara", "yo", "wane", "jya", "da2",
  "daxtu", "darou", "de", "desi", "desho", "desu", "na2", "nara", "mitaida",
  "rasii", "aru", "ari2", "are2", "arou"}
mama == {
  "wo", "ttara", "tte1", "ka1", "kasira", "kadouka", "kana", "kane", "kamo",
  "kara1", "ga1", "koso", "sa2", "sae", "sika", "sura", "zo", "dake", "dano",
  "to1", "toiu", "tohaie", "dokoro", "dokoroka", "nazo", "nado", "nari",
  "nanka", "nanzo", "nante", "ni1", "ne1", "nee", "no1", "nomi", "nominrz",
  "ha", "mo1", "ya1", "yara", "yo", "yori", "jya", "da2", "daxtu", "darou",
  "de", "desi", "desho", "desu", "na2", "nara", "mitaida", "rasii"}
mo1 == {}
mo2 == {"ga1", "nai", "si1", "suru", "se", "naru"}
motte == {}
mono == {
  "wo", "tte1", "ka1", "kasira", "kadouka", "kana", "kane", "kamo", "kara1",
  "ga1", "kurai", "koso", "sa2", "sae", "sika", "sura", "zo", "dake", "dano",
  "darake", "to1", "toiu", "tohaie", "dokoro", "dokoroka", "na1", "naa",
  "nagara", "nazo", "nado", "nari", "nanka", "nanzo", "nante", "ni1", "ne1",
  "nee", "no1", "nomi", "nominrz", "ha", "bakari", "he", "hodo", "made",
  "mo1", "ya1", "yara", "yo", "yori", "wane", "jya", "da2", "daxtu", "darou",
  "de", "desi", "desho", "desu", "na2", "nara", "mitaida", "rasii"}
ya1 == {"sa2", "nee"}
ya2 == {}
yara == {
  "wo", "ga1", "sae", "sika", "dake", "to1", "nazo", "nado", "nanka", "nanzo",
  "nante", "ni1", "ne1", "nee", "no1", "ha", "he", "made", "mo1", "de"}
yue == {
  "sa2", "to2", "toiu", "tohaie", "ni1", "ne1", "nee", "da2", "daxtu",
  "darou", "de", "desi", "desho", "desu", "na2", "nara", "rasii"}
yori1 == {"sa2", "ne1", "nee", "ha", "mo1"}
wake == {
  "ka2", "kasira", "kadouka", "kana", "kane", "ga1", "sa2", "to1", "toiu",
  "tohaie", "nazo", "nado", "nanka", "nanzo", "nante", "ni1", "ne1", "nee",
  "ha", "mo1", "yo", "jya", "da2", "daxtu", "darou", "de", "desi", "desho",
  "desu", "na2", "nara"}
nn1 == {"jya", "da2", "daxtu", "darou", "de", "desi", "desho", "desu", "nara"}
aisatu == {"wo", "tte1", "to2", "toiu", "deha", "gozai"}
kosodo == {
  "ka1", "kasira", "kana", "kamo", "sa2", "sae", "sika", "sura", "nazo",
  "nado", "nanka", "nanzo", "nante", "nimo", "ne1", "nee", "ha", "mo1", "yo",
  "jya", "da2", "daxtu", "darou", "de", "desi", "desho", "desu", "na2",
  "nara", "rasii", "sa1", "si1", "siro", "subesi", "suru", "sure", "se",
  "seyo", "dekiru", "naru"}
site == {"ha", "mo1"}
n_si == {
  "ppanasi", "gatera", "sae", "tutu", "te2", "teru", "na1", "ni2", "tya",
  "nagara2", "souda", "youtai", "ta", "tai", "nai", "mai", "masu", "masure",
  "you", "ii", "kakeru", "kaneru", "gatai", "gatida", "tayu", "nasai",
  "nasaru", "nikui", "yasui"}

-----------------------------------------------------------------------------
\* A code without a row: a null pointer.
NULL == {"NULL"}

\* The row of each code, from 1 on.
rigtadr == <<
  de, wo, kara1, ga1, to1, ni1, no1, ha, he, mo1, ya1, yori1, sae, sika, dake,
  i, e, kake, kane2, sugi, deki, mi, sase, rare, itadake, exp, renyou1,
  renyou5, sa5renyou1, renyou3, renyou7, sa5renyou3, renyou4, renyou8,
  sa5renyou4, NULL, NULL, NULL, krenyou, drenyou1, drenyou2, drenyou3, onbin1,
  onbin2, onbin3, deshi, axtu, onbin6, onbin8, ari1, ari2, ari3, iki, itasi,
  itadaki, ori2, gataku, ki, kudasai, gozai, gotoku, beku, soude, souni,
  tagari, taku, mizen1, naide, naku, nasai, fuuni, yori2, rashuu, dshuusi1,
  dshuusi2, gotosi, besi, zu, souda, mai, mitaida, shuusi, kshuusi, zaru,
  soudesu, ta, tai, desu, nai, nu, masu, nn2, rasii, drentai1, drentai2,
  drentai3, krentai, gotoki, beki, souna1, souna2, na2, katei1, katei2,
  katei3, kamei, ike, kure, meirei1, meirei2, dgokan, kgokan, sgokan, gati,
  jya, sou, mitai, yotte, you2, sho, meisi, aisatu, kosodo, you1, si1, meisi,
  meisi, fzkki, deha, nagara2, wo_s, wo_meisi, site, n_si, cut, NULL, cut,
  NULL, NULL, mizen2, mizen3, mizen4, si1, ji, age, mizen5, arou, karou,
  darou, deshou, ko, bekara, tagara, shuujo, ttatte, ttara, tte1, tte2,
  ppanasi, ppoi, ue, uti, oite, okeru, ori, ka1, ka2, katagata, kadouka, kamo,
  kara2, ga2, gatera, kiri, kuseni, kurai, gurumi, kedo, koso, koto, si2,
  sura, zutu, tame, tari, dano, darake, tuite, tuki, tutu, tumori, te1, te2,
  teru, to2, totte, toiu, toori, toki, tokoro, tote, tohaie, tomo, fdo, doori,
  dokoro, dokoroka, domo, nagara, nazo, nado, nari, nanka, nanzo, nante, ni2,
  ni3, nite, nimo, no2, node, noni, nomi, nominrz, hazu, ba, bakari, hou,
  hoka, hodo, made, mama, mo2, motte, mono, ya2, yara, yue, wake, nn1,
  josuusi, cut, cut, cut, cut, cut, meisi, dmeisi, smeisi1, smeisi2, kstb,
  ichisetubi, josuusi, rentaisi, cut>>

\* What the classes of words without inflection end with.
connadr == [
    MEISI |-> {
        "MEISI_1", "MEISI_2", "MEISI_3", "MEISI_4", "MEISI_11", "MYOUJI",
        "NAMAE", "KIGYOU", "TIMEI", "KEN_KU", "SETUBI_1", "SETUBI_2",
        "SETUBI_3", "SETUBI_4", "SETUBI_9", "IKKATU"},
    DAIMEISI |-> {"D_MEISI_1", "D_MEISI_2"},
    WO_MEISI |-> {"D_MEISI_3"},
    DAIMEISI6 |-> {"D_MEISI_6"},
    RENTAISI |-> {"RENTAISI"},
    SETUZOKU |-> {"SETUZOKU"},
    KANDOU |-> {"KANDOUSI"},
    JOSUUSI |-> {"JOSUUSI", "JOSUUSI2"},
    SUUSI |-> {"SUUSI"},
    SETTOU |-> {"SETTOU_1", "SETTOU_2", "SETTOU_3", "SETTOU_4", "SETTOU_5"},
    FUKUSI |-> {"FUKUSI_1"},
    MIZEN1 |-> {"SP_SA_MI1"},
    MIZEN2 |-> {"SP_SA_MI2"},
    SI1 |-> {"SP_SA_YOU"},
    SHUUSI |-> {"SP_SA_SYU", "SP_KA_SYU"},
    KATEI2 |-> {"SP_SA_KAT", "SP_KA_KAT"},
    MEIREI1 |-> {"SP_SA_ME1", "SP_KA_MEI"},
    MEIREI2 |-> {"SP_SA_ME2"},
    KO |-> {"SP_KA_MIZ"},
    KI |-> {"SP_KA_YOU"},
    KUDASAI |-> {"TEINEI1"},
    GOZAI |-> {"TEINEI2"},
    ONBIN2 |-> {"SP_KA_ONB"},
    KOSODO |-> {"SP_FUKUSI"},
    AISATU |-> {"AISATU"},
    KSHUUSI |-> {"SP_KEIYOUSI"},
    TANKAN |-> {"TANKANJI"}]
=============================================================================
