------------------------------- MODULE Codes --------------------------------
(***************************************************************************)
(* The codes of the conversion engine: characters of a reading (sj_yomi.h) *)
(* and their classes (chrtbl.c), word classes on the left and on the right *)
(* (sj_left.h, sj_right.h) and which of those may end a clause             *)
(* (termtbl.c), parts of speech (sj_hinsi.h).  A code is the place of its  *)
(* name in the sequence; a name that is a number is a code without one.    *)
(***************************************************************************)
EXTENDS Integers, Sequences

\* Characters: marks, digits, letters, then kana in the order of the
\* syllabary, small ones first.
Yomi == <<
  "TYOUON", "IGETA", "ATTO", "YUUBIN", "5", "6", "7", "8", "9", "10", "11",
  "12", "13", "14", "15", "N_0", "N_1", "N_2", "N_3", "N_4", "N_5", "N_6",
  "N_7", "N_8", "N_9", "A_A", "A_B", "A_C", "A_D", "A_E", "A_F", "A_G", "A_H",
  "A_I", "A_J", "A_K", "A_L", "A_M", "A_N", "A_O", "A_P", "A_Q", "A_R", "A_S",
  "A_T", "A_U", "A_V", "A_W", "A_X", "A_Y", "A_Z", "A_a", "A_b", "A_c", "A_d",
  "A_e", "A_f", "A_g", "A_h", "A_i", "A_j", "A_k", "A_l", "A_m", "A_n", "A_o",
  "A_p", "A_q", "A_r", "A_s", "A_t", "A_u", "A_v", "A_w", "A_x", "A_y", "A_z",
  "XA", "A", "XI", "I", "XU", "U", "XE", "E", "XO", "O", "KA", "GA", "KI",
  "GI", "KU", "GU", "KE", "GE", "KO", "GO", "SA", "ZA", "SI", "ZI", "SU",
  "ZU", "SE", "ZE", "SO", "ZO", "TA", "DA", "TI", "DI", "XTU", "TU", "DU",
  "TE", "DE", "TO", "DO", "NA", "NI", "NU", "NE", "NO", "HA", "BA", "PA",
  "HI", "BI", "PI", "HU", "BU", "PU", "HE", "BE", "PE", "HO", "BO", "PO",
  "MA", "MI", "MU", "ME", "MO", "XYA", "YA", "XYU", "YU", "XYO", "YO", "RA",
  "RI", "RU", "RE", "RO", "XWA", "WA", "WI", "WE", "WO", "NN", "VU", "XKA",
  "XKE">>

Left == <<
  "WO", "TTATTE", "TTARA", "TTE1", "TTE2", "PPANASI", "PPOI", "UE", "UTI",
  "OITE", "OKERU", "ORI", "KA1", "KA2", "KAI", "KASIRA", "KATAGATA",
  "KADOUKA", "KANA", "KANE", "KAMO", "KARA1", "KARA2", "GA1", "GA2", "GATERA",
  "KIRI", "KUSENI", "KURAI", "GURUMI", "KEDO", "KOSO", "KOTO", "SA2", "SAE",
  "SI2", "SIKA", "SURA", "ZUTU", "ZO", "TAME", "DAKE", "DANO", "DARAKE",
  "TUITE", "TUKI", "TUTU", "TUMORI", "TE1", "TE2", "TERU", "DEAROU", "DERU",
  "TO1", "TO2", "TOTTE", "TOIU", "TOORI", "TOKI", "TOKORO", "TOTE", "TOHAIE",
  "TOMO", "DO", "DOORI", "DOKORO", "DOKOROKA", "DOMO", "NA1", "NAA", "NAGARA",
  "NAZO", "NADO", "NARI", "NANKA", "NANZO", "NANTE", "NI1", "NI2", "NI3",
  "NITE", "NIMO", "NE1", "NEE", "NO1", "NO2", "NODE", "NONI", "NOMI",
  "NOMINRZ", "HA", "HAZU", "BA", "BAKARI", "HE", "HOU", "HOKA", "HODO",
  "MADE", "MAMA", "MO1", "MO2", "MOTTE", "MONO", "YA1", "YA2", "YARA", "YUE",
  "YO", "YORI", "WA", "WAKE", "WANE", "WAYO", "NN1", "JYA", "TYA", "NAGARA2",
  "WO_S", "120", "ZE", "KKE", "N_SI", "DEHA", "125", "126", "127", "128",
  "GOTOSI", "SASERU", "ZARU", "ZU", "ZUNBA", "SERU", "SOUDA", "YOUTAI",
  "DENBUN", "TA", "TAI", "TAGARU", "TARU", "DA1", "DA2", "DAXTU", "DAROU",
  "DE", "DESI", "DESHO", "DESU", "NA2", "NARA", "NAI", "NU", "NE2", "NN2",
  "FUUDA", "BESI", "MAI", "MASU", "MASURE", "MASE", "MITAIDA", "YOU", "YOUDA",
  "RASII", "RARERU", "RERU", "SITE", "YOUGEN", "ARU", "ARA", "ARI1", "ARI2",
  "ARI3", "ARE1", "ARE2", "AROU", "II", "ITASI", "ITADAKU", "IRU", "ERU",
  "KAKERU", "KANERU", "KARAZU", "GATAI", "GATIDA", "KUDASARU", "GOZAI", "SA1",
  "SI1", "SIRO", "JYAU", "JIMAU", "SUGIRU", "SUBESI", "SURU", "SURE", "SE",
  "SEYO", "TAMAU", "TYAU", "TIMAU", "DEKIRU", "NARU", "NASAI", "NASARU",
  "NIKUI", "YASUI", "YOI", "YORU", "TTARASII">>

Right == <<
  "DE", "WO", "KARA1", "GA1", "TO1", "NI1", "NO1", "HA", "HE", "MO1", "YA1",
  "YORI1", "SAE", "SIKA", "DAKE", "I", "E", "KAKE", "KANE2", "SUGI", "DEKI",
  "MI", "SASE", "RARE", "ITADAKE", "EXP", "RENYOU1", "RENYOU5", "SA5RENYOU1",
  "RENYOU3", "RENYOU7", "SA5RENYOU3", "RENYOU4", "RENYOU8", "SA5RENYOU4",
  "36", "37", "38", "KRENYOU", "DRENYOU1", "DRENYOU2", "DRENYOU3", "ONBIN1",
  "ONBIN2", "ONBIN3", "DESHI", "AXTU", "ONBIN6", "ONBIN8", "ARI1", "ARI2",
  "ARI3", "IKI", "ITASI", "ITADAKI", "ORI2", "GATAKU", "KI", "KUDASAI",
  "GOZAI", "GOTOKU", "BEKU", "SOUDE", "SOUNI", "TAGARI", "TAKU", "MIZEN1",
  "NAIDE", "NAKU", "NASAI", "FUUNI", "YORI2", "RASHUU", "DSHUUSI1",
  "DSHUUSI2", "GOTOSI", "BESI", "ZU", "SOUDA", "MAI", "MITAIDA", "SHUUSI",
  "KSHUUSI", "ZARU", "SOUDESU", "TA", "TAI", "DESU", "NAI", "NU", "MASU",
  "NN2", "RASII", "DRENTAI1", "DRENTAI2", "DRENTAI3", "KRENTAI", "GOTOKI",
  "BEKI", "SOUNA1", "SOUNA2", "NA2", "KATEI1", "KATEI2", "KATEI3", "KAMEI",
  "IKE", "KURE", "MEIREI1", "MEIREI2", "DGOKAN", "KGOKAN", "SGOKAN", "GATI",
  "JYA", "SOU", "MITAI", "YOTTE", "YOU2", "SHO", "FZKMEISI", "AISATU",
  "KOSODO", "YOU1", "HASI", "DAIMEISI", "DAIMEISI6", "FZKKI", "DEHA",
  "NAGARA2", "WO_S", "WO_MEISI", "SITE", "N_SI", "F_FUKUSI", "136", "CUT",
  "138", "139", "MIZEN2", "MIZEN3", "MIZEN4", "SI1", "JI", "AGE", "MIZEN5",
  "AROU", "KAROU", "DAROU", "DESHOU", "KO", "BEKARA", "TAGARA", "SHUUJO",
  "TTATTE", "TTARA", "TTE1", "TTE2", "PPANASI", "PPOI", "UE", "UTI", "OITE",
  "OKERU", "ORI1", "KA1", "KA2", "KATAGATA", "KADOUKA", "KAMO", "KARA2",
  "GA2", "GATERA", "KIRI", "KUSENI", "KURAI", "GURUMI", "KEDO", "KOSO",
  "KOTO", "SI2", "SURA", "ZUTU", "TAME", "TARI", "DANO", "DARAKE", "TUITE",
  "TUKI", "TUTU", "TUMORI", "TE1", "TE2", "TERU", "TO2", "TOTTE", "TOIU",
  "TOORI", "TOKI", "TOKORO", "TOTE", "TOHAIE", "TOMO", "DO", "DOORI",
  "DOKORO", "DOKOROKA", "DOMO", "NAGARA", "NAZO", "NADO", "NARI", "NANKA",
  "NANZO", "NANTE", "NI2", "NI3", "NITE", "NIMO", "NO2", "NODE", "NONI",
  "NOMI", "NOMINRZ", "HAZU", "BA", "BAKARI", "HOU", "HOKA", "HODO", "MADE",
  "MAMA", "MO2", "MOTTE", "MONO", "YA2", "YARA", "YUE", "WAKE", "NN1",
  "SUUSI", "SETUZOKU", "KANDOU", "SETTOU", "FUKUSI", "FZKKGU", "MEISI",
  "DMEISI", "SMEISI1", "SMEISI2", "KSTB", "ICHISETUBI", "JOSUUSI", "RENTAISI",
  "TANKAN">>

Hinsi == <<
  "MEISI_1", "MEISI_2", "MEISI_3", "MEISI_4", "MEISI_5", "MEISI_6", "MEISI_7",
  "MEISI_8", "MEISI_9", "MEISI_10", "MEISI_11", "D_MEISI_1", "D_MEISI_2",
  "D_MEISI_3", "D_MEISI_4", "D_MEISI_5", "D_MEISI_6", "MEISI_20", "19", "20",
  "MYOUJI", "NAMAE", "KIGYOU", "TIMEI", "KEN_KU", "RENTAISI", "SETUZOKU",
  "KANDOUSI", "JOSUUSI", "SUUSI", "SETTOU_1", "SETTOU_2", "SETTOU_3",
  "SETTOU_4", "SETTOU_5", "SETUBI_1", "SETUBI_2", "SETUBI_3", "SETUBI_4",
  "SETUBI_5", "SETUBI_6", "SETUBI_7", "SETUBI_8", "SETUBI_9", "FUKUSI_1",
  "FUKUSI_2", "FUKUSI_3", "FUKUSI_4", "FUKUSI_5", "FUKUSI_6", "FUKUSI_7",
  "FUKUSI_8", "FUKUSI_9", "JOSUUSI2", "55", "56", "57", "58", "59",
  "KEIYOUSI_1", "KEIYOUSI_2", "KEIYOUSI_3", "KEIYOUSI_4", "KEIYOUSI_5",
  "KEIYOUSI_6", "KEIYOUSI_7", "KEIYOUSI_8", "KEIYOUSI_9", "KEIYOUSI_10",
  "KEIYOUSI_11", "KE_DOUSI_1", "KE_DOUSI_2", "KE_DOUSI_3", "KE_DOUSI_4",
  "KE_DOUSI_5", "KE_DOUSI_6", "KE_DOUSI_7", "KE_DOUSI_8", "KE_DOUSI_9",
  "DO_SAHEN", "DO_ZAHEN", "82", "83", "84", "85", "86", "87", "88", "89",
  "DO_1DAN_1", "DO_KAGO_1", "DO_GAGO_1", "DO_SAGO_1", "DO_TAGO_1",
  "DO_NAGO_1", "DO_BAGO_1", "DO_MAGO_1", "DO_RAGO_1", "DO_WAGO_1",
  "DO_1DAN_2", "DO_KAGO_2", "DO_GAGO_2", "DO_SAGO_2", "DO_TAGO_2",
  "DO_BAGO_2", "DO_MAGO_2", "DO_RAGO_2", "DO_WAGO_2", "109", "110",
  "DO_KAGO_5", "DO_GAGO_5", "DO_SAGO_5", "DO_TAGO_5", "DO_BAGO_5",
  "DO_MAGO_5", "DO_RAGO_5", "DO_WAGO_5", "119", "120", "DO_KAGO_6",
  "DO_GAGO_6", "DO_SAGO_6", "DO_TAGO_6", "DO_BAGO_6", "DO_MAGO_6",
  "DO_RAGO_6", "DO_WAGO_6", "129", "DO_1DAN_3", "DO_KAGO_3", "DO_GAGO_3",
  "DO_SAGO_3", "DO_TAGO_3", "DO_BAGO_3", "DO_MAGO_3", "DO_RAGO_3",
  "DO_WAGO_3", "139", "DO_1DAN_4", "DO_KAGO_4", "DO_GAGO_4", "DO_SAGO_4",
  "DO_TAGO_4", "DO_BAGO_4", "DO_MAGO_4", "DO_RAGO_4", "DO_WAGO_4", "149",
  "150", "DO_KAGO_7", "DO_GAGO_7", "DO_SAGO_7", "DO_TAGO_7", "DO_BAGO_7",
  "DO_MAGO_7", "DO_RAGO_7", "DO_WAGO_7", "159", "160", "DO_KAGO_8",
  "DO_GAGO_8", "DO_SAGO_8", "DO_TAGO_8", "DO_BAGO_8", "DO_MAGO_8",
  "DO_RAGO_8", "DO_WAGO_8", "169", "170", "SP_SA_MI1", "SP_SA_MI2",
  "SP_SA_YOU", "SP_SA_SYU", "SP_SA_KAT", "SP_SA_ME1", "SP_SA_ME2",
  "SP_KA_MIZ", "SP_KA_YOU", "SP_KA_SYU", "SP_KA_KAT", "SP_KA_MEI", "TEINEI1",
  "TEINEI2", "SP_KA_ONB", "SP_FUKUSI", "AISATU", "SP_KEIYOUSI", "TANKANJI",
  "190", "191", "192", "193", "194", "195", "196", "197", "198", "199",
  "IKKATU">>

\* The code of a name.
CodeIn(names) == [x \in {names[i] : i \in DOMAIN names} |->
                    CHOOSE i \in DOMAIN names : names[i] = x]
YCode == CodeIn(Yomi)
LCode == CodeIn(Left)
RCode == CodeIn(Right)
HCode == CodeIn(Hinsi)

\* Kana that belong to the one before them.
DEPEND == {
  "XA", "XI", "XU", "XE", "XO", "XYA", "XYU", "XYO", "XWA", "XKA", "XKE"}
\* Characters that start no word but a functional one.
FZKTOP == {"TYOUON", "XTU", "WO"}
\* Digits.
NUMBER == {
  "N_0", "N_1", "N_2", "N_3", "N_4", "N_5", "N_6", "N_7", "N_8", "N_9"}

\* The ends of a clause that only the end of the sentence may follow, and
\* those that nothing but a functional word may.
T_SHUUJO == {"DSHUUSI1", "NN2", "MEIREI1", "MEIREI2", "DEHA", "SHUUJO", "NO2"}
T_NONE == {
  "I", "E", "ITADAKE", "36", "37", "38", "ONBIN1", "ONBIN2", "ONBIN3",
  "DESHI", "AXTU", "ONBIN6", "ONBIN8", "MIZEN1", "SOUNA1", "NA2", "KATEI2",
  "KATEI3", "KGOKAN", "HASI", "FZKKI", "136", "138", "139", "MIZEN2",
  "MIZEN3", "MIZEN4", "MIZEN5", "KO", "BEKARA", "TAGARA", "NN1", "KSTB"}
=============================================================================
