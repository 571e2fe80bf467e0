-------------------------- MODULE ConnectYougen ---------------------------
(***************************************************************************)
(* The rows of connect.c for the ends of inflected words: verbs,           *)
(* adjectives and auxiliaries.  Connect explains them and has the others.  *)
(***************************************************************************)

mizen1 == {"seru", "reru"}
mizen2 == {"zaru", "zu", "zunba", "nu", "ne2", "nn2"}
mizen3 == {"zaru", "zu", "zunba", "nu", "ne2", "rareru"}
mizen4 == {"zaru", "zu", "zunba", "nai", "nu", "ne2", "nn2"}
mizen5 == {"zaru", "zu", "zunba", "seru", "nai", "nu", "ne2", "nn2", "reru"}
arou == {
  "ttatte", "ttara", "tte1", "ka2", "kasira", "kana", "kara2", "ga2", "kedo",
  "si2", "dano", "to2", "toiu", "tote", "tohaie", "tomo", "dokoro",
  "dokoroka", "na1", "naa", "nazo", "nado", "nanka", "nanzo", "nante", "ni3",
  "ne1", "nee", "mono", "yo", "jya", "ze", "deha"}
you1 == {
  "ttatte", "ttara", "tte1", "ka2", "kasira", "kana", "ga2", "dano", "to2",
  "toiu", "tote", "tohaie", "tomo", "dokoro", "dokoroka", "na1", "naa",
  "nazo", "nado", "nanka", "nanzo", "nante", "ni3", "ne1", "nee", "mono",
  "yo", "jya", "ze", "deha"}
karou == {
  "ttatte", "tte1", "ka2", "ga2", "dano", "to2", "toiu", "tote", "tohaie",
  "dokoroka", "na1", "naa", "nazo", "nado", "nanka", "nanzo", "nante", "yo",
  "deha"}
darou == {
  "ttatte", "tte1", "ka2", "kane", "kara2", "ga2", "kedo", "si2", "dano",
  "to2", "toiu", "tote", "tohaie", "dokoroka", "na1", "naa", "nazo", "nado",
  "nanka", "nanzo", "nante", "ni3", "ne1", "yo", "deha"}
deshou == {
  "ttatte", "tte1", "ka2", "kara2", "ga2", "kedo", "si2", "to2", "toiu",
  "tohaie", "tomo", "na1", "naa", "ne1", "nee", "yo", "deha"}
ko == {"saseru", "zunba", "nai", "nu", "ne2", "nn2", "you", "rareru", "reru"}
bekara == {"zaru", "zu", "zunba"}
tagara == {"zaru", "zu", "seru", "nai", "nu", "ne2", "nn2"}
si1 == {
  "ppanasi", "gatera", "sae", "tutu", "te2", "teru", "na1", "ni2", "tya",
  "nagara2", "souda", "youtai", "ta", "tai", "tagaru", "nai", "mai", "masu",
  "masure", "you", "ii", "kakeru", "kaneru", "gatai", "gatida", "tayu",
  "timau", "nasai", "nasaru", "nikui", "yasui"}
ji == {
  "ppanasi", "gatera", "sae", "tutu", "te2", "teru", "na1", "ni2", "ha",
  "tya", "nagara2", "saseru", "zaru", "zu", "zunba", "souda", "youtai", "ta",
  "tai", "tagaru", "nai", "nu", "ne2", "mai", "masu", "masure", "rareru",
  "ii", "kakeru", "kaneru", "gatai", "gatida", "tayu", "nasai", "nasaru",
  "nikui", "yasui", "yoi"}
age == {
  "sae", "sura", "tutu", "te2", "teru", "na1", "ni2", "ha", "mo2", "tya",
  "zu", "zunba", "souda", "youtai", "ta", "tai", "tagaru", "nai", "nu", "ne2",
  "nn2", "mai", "masu", "masure", "you", "rareru", "tayu", "timau", "nasai",
  "nikui", "yasui"}
i == {
  "tutu", "te2", "tya", "nagara2", "saseru", "zaru", "zu", "souda", "youtai",
  "ta", "tai", "tagaru", "nai", "nu", "ne2", "mai", "masu", "masure", "you",
  "rareru", "nasai", "nasaru"}
e == {"te2", "zu", "souda", "youtai", "ta", "nai", "nu", "ne2", "you"}
kake == {
  "tutu", "te2", "teru", "no1", "mo2", "jya", "tya", "nagara2", "zu", "ta",
  "de", "desi", "desho", "desu", "na2", "nara", "nai", "nu", "ne2", "nn2",
  "masu", "masure", "you", "tayu", "timau", "nasai"}
kane2 == {
  "tutu", "te2", "teru", "tya", "nagara2", "zu", "ta", "nai", "masu",
  "masure", "you", "tayu", "timau"}
sugi == {
  "te1", "mo1", "tya", "zaru", "zu", "zunba", "ta", "nai", "nu", "ne2", "mai",
  "masu", "masure", "tayu", "timau"}
deki == {
  "tutu", "te2", "teru", "tya", "nagara2", "zu", "zunba", "souda", "youtai",
  "ta", "nai", "nu", "ne2", "nn2", "mai", "masu", "masure", "tayu", "timau"}
mi == {
  "tutu", "te2", "teru", "na1", "yo", "tya", "nagara2", "saseru", "zu", "ta",
  "tai", "tagaru", "nai", "nu", "ne2", "nn2", "mai", "masu", "masure", "you",
  "rareru", "tayu", "timau", "nasai"}
sase == {
  "tutu", "te2", "teru", "ni2", "tya", "nagara2", "zaru", "zu", "zunba",
  "souda", "youtai", "ta", "tai", "tagaru", "nai", "nu", "ne2", "nn2", "mai",
  "masu", "masure", "you", "rareru", "tayu", "timau", "nasai"}
rare == {
  "sae", "tutu", "te2", "teru", "nazo", "nado", "nanka", "nanzo", "nante",
  "mo2", "ya2", "tya", "nagara2", "zaru", "zu", "zunba", "souda", "youtai",
  "ta", "tai", "nai", "nu", "ne2", "nn2", "mai", "masu", "masure", "you",
  "gatida", "tayu", "timau", "nikui", "yasui"}
itadake == {
  "sae", "te2", "teru", "ba", "mo2", "tya", "zu", "souda", "youtai", "ta",
  "nai", "nu", "ne2", "nn2", "mai", "masu", "masure", "tayu"}
exp == {
  "ttatte", "ttara", "tte1", "sae", "dano", "tutu", "te2", "teru", "to2",
  "toiu", "tote", "tohaie", "do", "domo", "nazo", "nado", "nanka", "nanzo",
  "nante", "ba", "mo2", "yo", "tya", "nagara2", "saseru", "zaru", "zu",
  "souda", "youtai", "ta", "tai", "tagaru", "nai", "nu", "ne2", "nn2", "mai",
  "masu", "masure", "you", "rareru", "tayu", "nikui", "yasui"}
renyou1 == {
  "ppanasi", "ppoi", "gatera", "tutu", "te2", "teru", "na1", "ni2", "ha",
  "mo2", "tya", "nagara2", "saseru", "zaru", "zu", "zunba", "souda", "youtai",
  "ta", "tai", "tagaru", "nai", "nu", "ne2", "nn2", "mai", "masu", "masure",
  "you", "rareru", "reru", "ii", "gatai", "gatida", "tayu", "timau", "nasai",
  "nasaru", "nikui", "yasui"}
renyou3 == {
  "ttara", "tte1", "ppanasi", "ppoi", "ka1", "kasira", "kadouka", "kana",
  "kane", "kamo", "kara1", "ga1", "gatera", "kurai", "sa2", "sae", "sika",
  "sura", "dake", "dano", "darake", "tutu", "te2", "teru", "to1", "toiu",
  "tote", "tohaie", "dokoro", "dokoroka", "na1", "naa", "nazo", "nado",
  "nari", "nanka", "nanzo", "nante", "ni1", "nite", "ne1", "nee", "no1",
  "nomi", "nominrz", "ha", "bakari", "he", "hodo", "made", "mo2", "ya1",
  "yara", "yue", "yo", "yori", "jya", "tya", "nagara2", "wo_s", "saseru",
  "zaru", "zu", "zunba", "souda", "youtai", "ta", "tai", "tagaru", "da2",
  "daxtu", "darou", "de", "desi", "desho", "desu", "na2", "nara", "nai", "nu",
  "ne2", "nn2", "mai", "masu", "masure", "mitaida", "you", "rasii", "rareru",
  "reru", "ii", "gatai", "gatida", "tayu", "timau", "nasai", "nasaru",
  "nikui", "yasui"}
renyou4 == {
  "wo", "ttara", "tte1", "ppanasi", "ppoi", "ka1", "kasira", "kadouka",
  "kana", "kane", "kamo", "kara1", "ga1", "gatera", "kurai", "sae", "sura",
  "dake", "dano", "tutu", "te2", "teru", "to1", "toiu", "tote", "tohaie",
  "dokoro", "dokoroka", "nazo", "nado", "nari", "nanka", "nanzo", "nante",
  "ni1", "nite", "ne1", "nee", "no1", "nomi", "nominrz", "ha", "bakari", "he",
  "hodo", "made", "mo2", "ya1", "yara", "yue", "yo", "yori", "jya", "tya",
  "nagara2", "saseru", "zaru", "zu", "zunba", "tai", "tagaru", "da2", "daxtu",
  "darou", "de", "desi", "desho", "desu", "na2", "nara", "nu", "ne2", "nn2",
  "mitaida", "rasii", "rareru", "ii", "itasi", "itadaku", "gatai", "gatida",
  "kudasaru", "sa1", "si1", "suru", "sure", "se", "tayu", "timau", "dekiru",
  "nasai", "nasaru", "nikui", "yasui"}
renyou5 == {
  "ppanasi", "gatera", "koso", "sae", "tutu", "ni2", "ha", "mo2", "nagara2",
  "souda", "youtai", "tai", "tagaru", "masu", "masure", "ii", "eru", "gatai",
  "gatida", "nasai", "nikui", "yasui"}
renyou7 == {
  "ttara", "tte1", "ppanasi", "ka1", "kasira", "kadouka", "kana", "kane",
  "kamo", "kara1", "ga1", "gatera", "kurai", "koso", "sa2", "sae", "sika",
  "sura", "dake", "dano", "darake", "tutu", "to1", "toiu", "tote", "tohaie",
  "dokoro", "dokoroka", "na1", "naa", "nazo", "nado", "nari", "nanka",
  "nanzo", "nante", "ni1", "ne1", "nee", "no1", "nomi", "nominrz", "ha",
  "bakari", "he", "hodo", "made", "mo2", "ya1", "yara", "yue", "yo", "yori",
  "jya", "nagara2", "wo_s", "souda", "youtai", "tai", "tagaru", "da2",
  "daxtu", "darou", "de", "desi", "desho", "desu", "na2", "nara", "masu",
  "masure", "mitaida", "rasii", "ii", "eru", "gatai", "gatida", "nasai",
  "nikui", "yasui"}
renyou8 == {
  "wo", "ttara", "tte1", "ppanasi", "ka1", "kasira", "kadouka", "kana",
  "kane", "kamo", "kara1", "ga1", "gatera", "kurai", "koso", "sae", "sura",
  "dake", "dano", "tutu", "to1", "toiu", "tote", "tohaie", "dokoro",
  "dokoroka", "nazo", "nado", "nari", "nanka", "nanzo", "nante", "ni1", "ne1",
  "nee", "no1", "nomi", "nominrz", "ha", "bakari", "he", "hodo", "made",
  "mo2", "ya1", "yara", "yue", "yo", "yori", "jya", "nagara2", "tai",
  "tagaru", "da2", "daxtu", "darou", "de", "desi", "desho", "desu", "na2",
  "nara", "rasii", "ii", "itasi", "itadaku", "gatai", "gatida", "kudasaru",
  "si1", "siro", "suru", "sure", "se", "seyo", "dekiru", "nasai", "nikui",
  "yasui"}
sa5renyou1 == {
  "ppanasi", "gatera", "koso", "sae", "tutu", "te2", "teru", "ni2", "ha",
  "mo2", "tya", "nagara2", "souda", "youtai", "ta", "tai", "tagaru", "masu",
  "masure", "ii", "gatai", "gatida", "tayu", "timau", "nasai", "nikui",
  "yasui"}
sa5renyou3 == {
  "ttara", "tte1", "ppanasi", "ka1", "kasira", "kadouka", "kana", "kane",
  "kamo", "kara1", "ga1", "gatera", "kurai", "koso", "sa2", "sae", "sika",
  "sura", "dake", "dano", "tutu", "te2", "teru", "to1", "toiu", "tote",
  "tohaie", "dokoro", "dokoroka", "na1", "naa", "nazo", "nado", "nari",
  "nanka", "nanzo", "nante", "ni1", "ne1", "nee", "no1", "nomi", "nominrz",
  "ha", "bakari", "he", "hodo", "made", "mo2", "ya1", "yara", "yue", "yo",
  "yori", "jya", "tya", "nagara2", "wo_s", "souda", "youtai", "ta", "tai",
  "tagaru", "da2", "daxtu", "darou", "de", "desi", "desho", "desu", "na2",
  "nara", "masu", "masure", "mitaida", "rasii", "ii", "gatai", "gatida",
  "tayu", "timau", "nasai", "nikui", "yasui"}
sa5renyou4 == {
  "wo", "ttara", "tte1", "ppanasi", "ka1", "kasira", "kadouka", "kana",
  "kane", "kamo", "kara1", "ga1", "gatera", "kurai", "koso", "sae", "sura",
  "dake", "dano", "tutu", "te2", "teru", "to1", "toiu", "tote", "tohaie",
  "dokoro", "dokoroka", "nazo", "nado", "nari", "nanka", "nanzo", "nante",
  "ni1", "ne1", "nee", "no1", "nomi", "nominrz", "ha", "bakari", "he", "hodo",
  "made", "mo2", "ya1", "yara", "yue", "yo", "yori", "jya", "tya", "nagara2",
  "tai", "tagaru", "da2", "daxtu", "darou", "de", "desi", "desho", "desu",
  "na2", "nara", "mitaida", "rasii", "ii", "itasi", "itadaku", "gatai",
  "gatida", "kudasaru", "sa1", "si1", "suru", "sure", "se", "tayu", "timau",
  "dekiru", "nasai", "nikui", "yasui"}
krenyou == {
  "ttatte", "tte2", "ka1", "koso", "sae", "sika", "dano", "te1", "tomo",
  "nazo", "nado", "nanka", "nanzo", "nante", "ne1", "ha", "mo2", "nai", "sa1",
  "si1", "siro", "subesi", "suru", "sure", "se", "seyo", "dekiru", "naru"}
drenyou1 == {
  "koso", "sae", "sika", "sura", "nazo", "nado", "nanka", "nanzo", "nante",
  "ha", "mo2", "nai", "aru", "ara", "ari1", "are1", "arou", "gozai"}
drenyou2 == {
  "oite", "okeru", "ka1", "kasira", "kadouka", "kana", "kane", "kurai",
  "koso", "sa2", "sae", "sika", "sura", "dake", "dano", "tuite", "tuki",
  "to2", "totte", "dokoro", "dokoroka", "na1", "naa", "nazo", "nado", "nari",
  "nanka", "nanzo", "nante", "ne1", "nee", "nomi", "nominrz", "ha", "bakari",
  "made", "mo2", "yara", "yo", "wane", "deha", "de", "nara", "nai", "aru",
  "ara", "ari2", "are2", "arou", "sa1", "si1", "siro", "subesi", "suru",
  "sure", "se", "seyo", "dekiru", "naru", "nasai", "nasaru"}
drenyou3 == {
  "ka1", "dokoro", "dokoroka", "nazo", "nado", "nanka", "nanzo", "nante",
  "ne1", "ha", "yo", "sa1", "si1", "siro", "subesi", "suru", "sure", "se",
  "seyo", "dekiru", "naru", "nasai", "nasaru"}
onbin1 == {"ta"}
onbin2 == {"te2", "teru", "tya", "ta", "tayu", "timau"}
onbin3 == {"deru", "jya", "da1", "darou", "jyau", "jimau"}
deshi == {"te2", "ta"}
axtu == {"te2", "tya", "ta"}
onbin6 == {"te2", "teru", "ta"}
onbin8 == {"te2", "tya", "ta", "tayu", "timau"}
ari1 == {
  "sae", "tutu", "ha", "mo2", "nagara2", "tai", "masu", "masure", "eru",
  "nasai", "nasaru"}
ari2 == {
  "sae", "tutu", "ha", "mo2", "nagara2", "souda", "youtai", "masu", "masure",
  "eru"}
ari3 == {"tutu", "nagara2", "masu", "masure", "eru"}
iki == {
  "tutu", "mo2", "nagara2", "souda", "youtai", "tai", "tagaru", "masu",
  "masure", "nasai"}
itasi == {"masu", "masure"}
itadaki == {
  "sae", "tutu", "ha", "mo2", "nagara2", "tai", "masu", "masure", "nasai"}
ori2 == {"nagara2", "masu", "masure"}
gataku == {
  "tte2", "te1", "tomo", "nazo", "nado", "nanka", "nanzo", "nante", "ha",
  "mo1", "nara", "nai", "sa1", "si1", "siro", "suru", "sure", "se", "seyo"}
ki == {
  "tutu", "te2", "teru", "ha", "mo2", "tya", "nagara2", "souda", "youtai",
  "ta", "tai", "tagaru", "masu", "masure", "tayu", "timau", "nasai"}
fzkki == {
  "tutu", "te2", "teru", "ha", "mo2", "tya", "nagara2", "souda", "youtai",
  "ta", "tai", "tagaru", "masu", "masure", "tayu", "timau", "nasai"}
deha == {"nai"}
kudasai == {
  "ttatte", "tte1", "dano", "to2", "toiu", "tohaie", "na1", "naa", "ne1",
  "nee", "yara", "yo", "deha", "masu", "masure", "mase"}
gozai == {"nagara2", "masu", "masure", "mase"}
gotoku == {"ni1", "de"}
beku == {}
soude == {"ha", "mo1", "aru", "ara", "ari3", "are2", "arou"}
souni == {
  "sae", "nazo", "nado", "nanka", "nanzo", "nante", "ha", "mo1", "nai",
  "naru"}
tagari == {
  "sae", "tutu", "nazo", "nado", "nanka", "nanzo", "nante", "ha", "mo2",
  "nagara2", "souda", "youtai", "masu", "masure"}
taku == {
  "tte2", "sae", "te1", "tomo", "nazo", "nado", "nanka", "nanzo", "nante",
  "ha", "mo2", "tya", "nai", "naru"}
de == {
  "koso", "sa2", "sae", "sika", "sura", "dake", "nazo", "nado", "nanka",
  "nanzo", "nante", "ne1", "nee", "no1", "nomi", "nominrz", "ha", "bakari",
  "mo2", "yara", "nai", "aru", "ara", "ari1", "are1", "arou", "gozai"}
naide == {
  "tte1", "sa2", "to2", "toiu", "tohaie", "nazo", "nado", "nanka", "nanzo",
  "nante", "ne1", "nee", "ha", "mo1", "yue", "yo", "deha", "itadaku", "iru",
  "kudasaru"}
naku == {"tte2", "te1", "ha", "mo2", "tya", "naru"}
nasai == {
  "ttatte", "tte1", "ka2", "to2", "toiu", "tohaie", "dokoro", "dokoroka",
  "na1", "nazo", "nado", "nanka", "nanzo", "nante", "ne1", "nee", "yo", "jya",
  "deha"}
fuuni == {
  "tte1", "kana", "kane", "sa2", "sae", "sika", "sura", "dake", "dano", "to2",
  "toiu", "tohaie", "dokoro", "dokoroka", "na1", "naa", "nazo", "nado",
  "nanka", "nanzo", "nante", "ne1", "nee", "ha", "made", "mo1", "wane",
  "deha", "desi", "desho", "desu", "nara", "si1", "subesi", "naru"}
yori2 == {"souda", "youtai", "masu", "masure"}
rashuu == {"gozai"}
dshuusi1 == {
  "tte1", "ka1", "kadouka", "kara2", "ga2", "kedo", "si2", "zo", "to2",
  "toiu", "tohaie", "na1", "naa", "nazo", "nado", "nanka", "nanzo", "nante",
  "ne1", "nee", "mono", "yo", "wa", "wane", "wayo", "ze", "kke", "deha",
  "souda", "denbun"}
dshuusi2 == {
  "tte1", "to2", "toiu", "tohaie", "nazo", "nado", "nanka", "nanzo", "nante",
  "deha"}
gotosi == {
  "tte1", "to2", "toiu", "tohaie", "nazo", "nado", "nanka", "nanzo", "nante",
  "deha"}
besi == {
  "tte1", "to2", "toiu", "tohaie", "nazo", "nado", "nanka", "nanzo", "nante",
  "deha"}
zu == {
  "tte1", "to2", "toiu", "tohaie", "ni3", "mo1", "jya", "deha", "da2",
  "daxtu", "darou", "de", "desi", "desho", "desu", "nara"}
souda == {
  "tte1", "ka1", "kadouka", "kara2", "ga2", "kedo", "si2", "zo", "to2",
  "toiu", "tote", "tohaie", "dokoroka", "na1", "naa", "ne1", "nee", "yo",
  "wa", "wane", "wayo", "deha"}
mai == {
  "ttatte", "tte1", "ka2", "ga2", "kedo", "to2", "toiu", "tote", "tohaie",
  "dokoroka", "na1", "naa", "nazo", "nado", "nanka", "nanzo", "nante", "ne1",
  "nee", "deha"}
mitaida == {
  "kara2", "ga2", "kedo", "si2", "zo", "to2", "toiu", "tote", "tohaie", "na1",
  "naa", "nazo", "nado", "nanka", "nanzo", "nante", "ne1", "nee", "yara",
  "yo", "wa", "wane", "deha", "souda", "denbun"}
shuusi == {
  "ttatte", "ttara", "tte1", "ue", "uti", "ori", "ka1", "kasira", "kadouka",
  "kana", "kane", "kamo", "kara2", "ga2", "kiri", "kuseni", "kurai", "kedo",
  "koto", "sa2", "si2", "sika", "zo", "tame", "dake", "dano", "tumori",
  "dearou", "to2", "toiu", "toori", "toki", "tokoro", "tote", "tohaie",
  "dokoro", "dokoroka", "na1", "naa", "nazo", "nado", "nari", "nanka",
  "nanzo", "nante", "ni3", "ne1", "nee", "no2", "node", "noni", "nomi",
  "nominrz", "hazu", "bakari", "hou", "hoka", "hodo", "made", "mama", "mo1",
  "mono", "ya2", "yara", "yue", "yo", "yori", "wa", "wake", "wane", "wayo",
  "nn1", "jya", "ze", "deha", "gotosi", "souda", "denbun", "darou", "desho",
  "nara", "besi", "mai", "mitaida", "youda", "rasii"}
kshuusi == {
  "ttatte", "ttara", "tte1", "ue", "uti", "ka1", "kasira", "kadouka", "kana",
  "kane", "kamo", "kara2", "ga2", "kuseni", "kurai", "kedo", "koso", "koto",
  "sa2", "si2", "zo", "tame", "dake", "dano", "tumori", "dearou", "to2",
  "toiu", "toki", "tokoro", "tote", "tohaie", "dokoro", "dokoroka", "na1",
  "naa", "nazo", "nado", "nari", "nanka", "nanzo", "nante", "ni3", "ne1",
  "no2", "node", "noni", "nomi", "nominrz", "hazu", "bakari", "hou", "hoka",
  "hodo", "made", "mama", "mo1", "mono", "yara", "yue", "yo", "yori", "wa",
  "wake", "wane", "wayo", "nn1", "jya", "ze", "deha", "souda", "denbun",
  "darou", "desi", "desho", "desu", "nara", "mitaida", "youda", "rasii"}
zaru == {
  "wo", "ue", "uti", "ori", "koto", "tame", "toki", "tokoro", "hoka", "made",
  "mama", "mono", "yue", "yori"}
soudesu == {
  "ttatte", "tte1", "ka2", "kara2", "ga2", "kedo", "si2", "zo", "to2", "toiu",
  "tote", "tohaie", "na1", "naa", "ne1", "nee", "node", "noni", "yo", "wa",
  "wane", "wayo", "nn1", "deha"}
ta == {
  "tte1", "ue", "uti", "ori", "ka1", "kasira", "kadouka", "kana", "kane",
  "kamo", "kara2", "ga2", "kiri", "kuseni", "kurai", "kedo", "koto", "sa2",
  "si2", "zo", "tame", "dake", "dano", "tumori", "dearou", "to2", "toiu",
  "toki", "tokoro", "tote", "tohaie", "dokoro", "dokoroka", "na1", "naa",
  "nazo", "nado", "nari", "nanka", "nanzo", "nante", "ni3", "ne1", "nee",
  "no2", "node", "noni", "nomi", "nominrz", "hazu", "bakari", "hou", "hoka",
  "hodo", "made", "mama", "mo1", "mono", "yara", "yue", "yo", "yori", "wa",
  "wake", "wane", "wayo", "nn1", "jya", "ze", "kke", "deha", "souda",
  "denbun", "darou", "desho", "desu", "nara", "mitaida", "youda", "rasii"}
tai == {
  "ttatte", "tte1", "ue", "uti", "ka1", "kasira", "kadouka", "kana", "kane",
  "kamo", "kara2", "ga2", "kuseni", "kurai", "kedo", "koto", "sa2", "si2",
  "zo", "tame", "dake", "dano", "dearou", "to2", "toiu", "toki", "tokoro",
  "tote", "tohaie", "dokoro", "dokoroka", "na1", "naa", "nazo", "nado",
  "nari", "nanka", "nanzo", "nante", "ni3", "ne1", "nee", "no2", "node",
  "noni", "hazu", "bakari", "hou", "hoka", "hodo", "mo1", "mono", "yara",
  "yue", "yo", "yori", "wa", "wake", "wane", "wayo", "nn1", "jya", "deha",
  "souda", "denbun", "darou", "desho", "desu", "nara", "mitaida", "youda",
  "rasii"}
desu == {
  "ttatte", "tte1", "ka2", "kara2", "ga2", "kedo", "si2", "zo", "dano", "to2",
  "toiu", "tote", "tohaie", "dokoro", "dokoroka", "na1", "naa", "nazo",
  "nado", "nanka", "nanzo", "nante", "ne1", "nee", "no2", "node", "noni",
  "mono", "yara", "yue", "yo", "wa", "wane", "nn1", "deha"}
nai == {
  "ttatte", "tte1", "ue", "uti", "ka1", "kasira", "kadouka", "kana", "kane",
  "kamo", "kara2", "ga2", "kuseni", "kurai", "kedo", "koto", "sa2", "si2",
  "zo", "tame", "dake", "dano", "tumori", "dearou", "to2", "toiu", "toki",
  "tokoro", "tohaie", "dokoro", "dokoroka", "na1", "naa", "nazo", "nado",
  "nari", "nanka", "nanzo", "nante", "ni3", "ne1", "nee", "no2", "node",
  "noni", "hazu", "bakari", "hou", "hoka", "hodo", "made", "mama", "mo1",
  "mono", "yara", "yue", "yo", "yori", "wa", "wake", "wane", "wayo", "nn1",
  "jya", "nagara2", "ze", "kke", "deha", "souda", "denbun", "darou", "desho",
  "desu", "nara", "mitaida", "youda", "rasii"}
nu == {
  "ttatte", "tte1", "ue", "uti", "ori", "ka2", "kara2", "ga2", "kedo", "koto",
  "si2", "dano", "dearou", "to2", "toiu", "tohaie", "dokoro", "dokoroka",
  "nazo", "nado", "nari", "nanka", "nanzo", "nante", "no2", "node", "noni",
  "hodo", "made", "mo1", "mono", "yara", "yue", "yori", "nagara2", "deha",
  "souda", "denbun", "darou", "nara", "mai", "mitaida", "youda", "rasii"}
masu == {
  "ttatte", "tte1", "ue", "uti", "ori", "ka2", "kasira", "kadouka", "kana",
  "kane", "kamo", "kara2", "ga2", "kedo", "koto", "si2", "zo", "dano", "to2",
  "toiu", "tohaie", "dokoro", "dokoroka", "nazo", "nado", "nari", "nanka",
  "nanzo", "nante", "nimo", "ne1", "nee", "no2", "node", "noni", "hoka",
  "hodo", "made", "mama", "mo1", "ya2", "yara", "yo", "yori", "wa", "wane",
  "wayo", "nn1", "deha", "desho", "mai", "you"}
nn2 == {
  "tte1", "ka2", "kara2", "ga2", "kuseni", "kedo", "koto", "si2", "zo",
  "tumori", "to2", "toiu", "toki", "tohaie", "dokoroka", "nazo", "nado",
  "nanzo", "nante", "ne1", "nee", "no2", "node", "noni", "bakari", "mono",
  "yara", "yue", "yo", "yori", "wa", "wake", "wane", "deha", "souda",
  "denbun", "darou", "de", "desi", "desho", "nara", "youda", "rasii"}
rasii == {
  "tte1", "ka2", "kasira", "kadouka", "kana", "kane", "kamo", "kara2", "ga2",
  "kedo", "koto", "sa2", "si2", "zo", "dake", "to2", "toiu", "toki", "tohaie",
  "dokoro", "dokoroka", "na1", "naa", "nazo", "nado", "nanka", "nanzo",
  "nante", "ne1", "nee", "no2", "node", "noni", "mono", "yo", "wa", "wane",
  "wayo", "nn1", "jya", "deha", "souda", "denbun", "desi", "desho", "desu",
  "nara"}
drentai1 == {
  "ue", "uti", "kiri", "kuseni", "kurai", "koto", "tame", "dake", "dano",
  "tumori", "toki", "tokoro", "no2", "node", "noni", "nomi", "nominrz",
  "hazu", "bakari", "hou", "hoka", "hodo", "made", "mama", "mono", "yue",
  "nn1", "youda"}
drentai2 == {"koto", "dokoroka", "mono", "yue"}
drentai3 == {"koto", "dokoroka", "mono", "yue"}
krentai == {
  "ue", "uti", "koto", "tame", "nazo", "nado", "nanka", "nanzo", "nante",
  "no1", "ha", "mama", "mono", "yue", "wake"}
gotoki == {
  "ue", "uti", "koto", "tame", "nazo", "nado", "nanka", "nanzo", "nante",
  "no1", "ha", "mama", "mono", "yue", "wake"}
beki == {
  "ue", "uti", "ka1", "kasira", "kadouka", "kana", "kane", "kamo", "koto",
  "dano", "toki", "tokoro", "ne1", "mono", "yo", "da2", "daxtu", "darou",
  "de", "desi", "desho", "desu", "na2", "nara"}
souna1 == {"node", "noni"}
souna2 == {
  "ue", "uti", "kuseni", "koto", "dake", "dokoro", "dokoroka", "no2", "node",
  "noni", "hoka", "hodo", "made", "mama", "mono", "yue", "nn1"}
na2 == {"no2", "node", "noni", "nn1"}
katei1 == {"ba", "ii"}
katei2 == {"do", "domo", "ba"}
katei3 == {"ba"}
kamei == {
  "ttatte", "ttara", "tte1", "dano", "to2", "toiu", "tote", "tohaie", "do",
  "domo", "nazo", "nado", "nanka", "nanzo", "nante", "ba", "yo", "deha"}
ike == {
  "ttatte", "ttara", "tte1", "dano", "to2", "toiu", "tote", "tohaie", "do",
  "domo", "nazo", "nado", "nanka", "nanzo", "nante", "ba", "yo", "deha", "zu",
  "zunba", "nai", "nu", "ne2", "nn2"}
kure == {
  "ttatte", "tte1", "sae", "sura", "te2", "teru", "to2", "toiu", "tohaie",
  "do", "domo", "nazo", "nado", "nanka", "nanzo", "nante", "ha", "ba", "mo2",
  "yo", "tya", "nagara2", "deha", "zaru", "zu", "zunba", "souda", "youtai",
  "ta", "nai", "nu", "ne2", "mai", "masu", "masure", "tayu", "timau"}
meirei1 == {
  "ttatte", "ttara", "tte1", "dano", "to2", "toiu", "tote", "tohaie", "nazo",
  "nado", "nanka", "nanzo", "nante", "yo", "deha"}
meirei2 == {
  "ttatte", "ttara", "tte1", "dano", "to2", "toiu", "tote", "tohaie", "nazo",
  "nado", "nanka", "nanzo", "nante", "deha"}
dgokan == {
  "tte1", "ppoi", "ka1", "kasira", "kadouka", "kana", "kane", "kamo", "sa2",
  "dano", "to1", "toiu", "tote", "tohaie", "dokoroka", "nazo", "nado",
  "nanka", "nanzo", "nante", "ne1", "nee", "yara", "yo", "jya", "nagara2",
  "souda", "youtai", "desi", "desho", "desu", "mitaida", "rasii", "sugiru",
  "ttarasii"}
kgokan == {"souda", "youtai", "karazu", "sugiru", "ttarasii"}
sgokan == {"subesi"}
gati == {
  "kasira", "kana", "kane", "kamo", "dano", "ne1", "nee", "desi", "desho",
  "desu", "rasii"}
jya == {"ne1", "nee", "nai"}
sou == {
  "tte1", "ka2", "kasira", "kadouka", "kana", "kane", "sa2", "to2", "toiu",
  "tohaie", "dokoroka", "ne1", "nee", "mo2", "yo", "jya", "deha"}
mitai == {
  "tte1", "sa2", "to2", "toiu", "tohaie", "ne1", "nee", "yo", "jya", "deha"}
yotte == {"dake", "ha", "mo1"}
you2 == {"ne1", "nee", "yo", "jya"}
sho == {
  "ttatte", "ttara", "tte1", "to2", "toiu", "tohaie", "nazo", "nado", "nanka",
  "nanzo", "nante", "deha"}
=============================================================================
