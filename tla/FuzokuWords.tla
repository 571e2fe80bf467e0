---------------------------- MODULE FuzokuWords -----------------------------
(***************************************************************************)
(* The functional words, by the kana they start with (fzkyomi.c), and the  *)
(* suffixes, by the part of speech of the stem (stbtbl.c).  F(n, y, l, r)  *)
(* shares the first n characters behind that kana with the entry before    *)
(* it, goes on with y, follows what connects with l and ends a clause with *)
(* r; S(y, h) is a suffix that makes a word of part of speech h.           *)
(***************************************************************************)

F(n, y, l, r) == [ask |-> n, nkr |-> y, left |-> l, right |-> r, ka |-> FALSE]
\* The particle of a question (FzkStrKa).
FKa(n, y, l, r) == [F(n, y, l, r) EXCEPT !.ka = TRUE]

fzk_wo == <<
  F(0, <<>>, "WO", "WO"), F(0, <<>>, "WO_S", "WO_S")>>
fzk_xtu == <<
  F(0, <<"KE">>, "KKE", "SHUUJO"),
  F(0, <<"TA", "XTU", "TE">>, "TTATTE", "TTATTE"),
  F(1, <<"RA">>, "TTARA", "TTARA"),
  F(2, <<"SI", "I">>, "TTARASII", "KSHUUSI"),
  F(3, <<"KA", "XTU">>, "TTARASII", "ONBIN1"),
  F(4, <<"RO", "U">>, "TTARASII", "KAROU"),
  F(3, <<"KU">>, "TTARASII", "KRENYOU"),
  F(3, <<"KE", "RE">>, "TTARASII", "KATEI1"),
  F(3, <<"SA">>, "TTARASII", "FZKMEISI"), F(0, <<"TE">>, "TTE1", "TTE1"),
  F(1, <<>>, "TTE2", "TTE2"),
  F(0, <<"PA", "NA", "SI">>, "PPANASI", "PPANASI"),
  F(0, <<"PO", "I">>, "PPOI", "PPOI"),
  F(1, <<"KA", "XTU">>, "PPOI", "ONBIN1"),
  F(2, <<"RO", "U">>, "PPOI", "KAROU"), F(1, <<"KU">>, "PPOI", "KRENYOU"),
  F(1, <<"KE", "RE">>, "PPOI", "KATEI1")>>
fzk_a == <<
  F(0, <<"GE">>, "YOUGEN", "AGE"), F(1, <<"YO">>, "YOUGEN", "MEIREI2"),
  F(1, <<"RU">>, "YOUGEN", "SHUUSI"), F(1, <<"RE">>, "YOUGEN", "KATEI3"),
  F(1, <<"RO">>, "YOUGEN", "MEIREI1"), F(0, <<"XTU">>, "ARU", "AXTU"),
  F(0, <<"RA">>, "ARA", "MIZEN2"), F(0, <<"RI">>, "ARI1", "ARI1"),
  F(1, <<>>, "ARI2", "ARI2"), F(1, <<>>, "ARI3", "ARI3"),
  F(0, <<"RU">>, "ARU", "SHUUSI"), F(0, <<"RE">>, "ARE1", "KAMEI"),
  F(1, <<>>, "ARE2", "KATEI2"), F(1, <<"BA", "KO", "SO">>, "ARE1", "CUT"),
  F(0, <<"RO", "U">>, "AROU", "AROU")>>
fzk_i == <<
  F(0, <<>>, "IRU", "I"), F(0, <<"I">>, "II", "SHUUSI"),
  F(0, <<"KA">>, "YOUGEN", "MIZEN5"), F(0, <<"KI">>, "YOUGEN", "IKI"),
  F(0, <<"KU">>, "YOUGEN", "SHUUSI"), F(0, <<"KE">>, "YOUGEN", "IKE"),
  F(0, <<"KO", "U">>, "YOUGEN", "AROU"),
  F(0, <<"TA", "SI">>, "ITASI", "ITASI"),
  F(1, <<"DA", "I">>, "ITADAKU", "ONBIN2"),
  F(2, <<"KA">>, "ITADAKU", "MIZEN4"), F(2, <<"KI">>, "ITADAKU", "ITADAKI"),
  F(2, <<"KU">>, "ITADAKU", "SHUUSI"), F(2, <<"KE">>, "ITADAKU", "ITADAKE"),
  F(2, <<"KO", "U">>, "ITADAKU", "AROU"), F(0, <<"XTU">>, "YOUGEN", "ONBIN8"),
  F(0, <<"YO">>, "IRU", "MEIREI2"), F(0, <<"RU">>, "IRU", "SHUUSI"),
  F(0, <<"RE">>, "IRU", "KATEI2"), F(0, <<"RO">>, "IRU", "MEIREI1")>>
fzk_u == <<
  F(0, <<"E">>, "UE", "UE"), F(0, <<"TI">>, "UTI", "UTI"),
  F(0, <<"RU">>, "ERU", "SHUUSI")>>
fzk_e == <<
  F(0, <<>>, "ERU", "E"), F(0, <<"RU">>, "ERU", "SHUUSI"),
  F(0, <<"RE">>, "ERU", "KATEI3")>>
fzk_o == <<
  F(0, <<"I">>, "YOUGEN", "ONBIN8"), F(1, <<"TE">>, "OITE", "OITE"),
  F(0, <<"KA">>, "YOUGEN", "MIZEN5"), F(0, <<"KI">>, "YOUGEN", "IKI"),
  F(0, <<"KU">>, "YOUGEN", "SHUUSI"), F(0, <<"KE">>, "YOUGEN", "IKE"),
  F(1, <<"RU">>, "OKERU", "OKERU"), F(0, <<"KO", "U">>, "YOUGEN", "AROU"),
  F(0, <<"RA">>, "YOUGEN", "MIZEN2"), F(0, <<"RI">>, "ORI", "ORI1"),
  F(1, <<>>, "YOUGEN", "ORI2"), F(0, <<"RE">>, "YOUGEN", "KAMEI")>>
fzk_ka == <<
  FKa(0, <<>>, "KA1", "KA1"), FKa(0, <<>>, "KA2", "KA2"),
  F(0, <<"I">>, "KAI", "SHUUJO"), F(0, <<"KE">>, "KAKERU", "KAKE"),
  F(1, <<"RU">>, "KAKERU", "SHUUSI"), F(1, <<"RE">>, "KAKERU", "KATEI3"),
  F(0, <<"SI", "RA">>, "KASIRA", "SHUUJO"),
  F(2, <<"NE">>, "KASIRA", "SHUUJO"),
  F(0, <<"TA", "GA", "TA">>, "KATAGATA", "KATAGATA"),
  F(0, <<"DO", "U", "KA">>, "KADOUKA", "KADOUKA"),
  F(0, <<"NA">>, "KANA", "SHUUJO"), F(0, <<"NE">>, "KANE", "SHUUJO"),
  F(1, <<>>, "KANERU", "KANE2"), F(1, <<"RU">>, "KANERU", "SHUUSI"),
  F(1, <<"RE">>, "KANERU", "KATEI3"),
  F(0, <<"MA", "TA", "HA">>, "KA1", "CUT"), F(0, <<"MO">>, "KAMO", "KAMO"),
  F(0, <<"RA">>, "KARA1", "KARA1"), F(1, <<>>, "KARA2", "KARA2"),
  F(1, <<"ZU">>, "KARAZU", "ZU"), F(1, <<"NU">>, "KARAZU", "NU")>>
fzk_ga == <<
  F(0, <<>>, "GA1", "GA1"), F(0, <<>>, "GA2", "GA2"),
  F(0, <<"TA", "I">>, "GATAI", "KSHUUSI"),
  F(1, <<"KA", "XTU">>, "GATAI", "ONBIN1"),
  F(2, <<"RO", "U">>, "GATAI", "KAROU"), F(1, <<"KU">>, "GATAI", "GATAKU"),
  F(1, <<"KE", "RE">>, "GATAI", "KATEI2"), F(0, <<"TI">>, "GATIDA", "GATI"),
  F(1, <<"DA">>, "GATIDA", "DSHUUSI1"), F(2, <<"XTU">>, "GATIDA", "ONBIN1"),
  F(2, <<"RO", "U">>, "GATIDA", "DAROU"),
  F(1, <<"DE">>, "GATIDA", "DRENYOU1"), F(1, <<"NA">>, "GATIDA", "DRENTAI1"),
  F(2, <<"RA">>, "GATIDA", "KATEI1"), F(1, <<"NI">>, "GATIDA", "DRENYOU2"),
  F(0, <<"TE", "RA">>, "GATERA", "GATERA")>>
fzk_ki == <<
  F(0, <<>>, "YOUGEN", "FZKKI"), F(0, <<"RI">>, "KIRI", "KIRI")>>
fzk_ku == <<
  F(0, <<"SE", "NI">>, "KUSENI", "KUSENI"),
  F(0, <<"DA", "SA", "I">>, "KUDASARU", "KUDASAI"),
  F(2, <<"XTU">>, "KUDASARU", "ONBIN6"), F(2, <<"RA">>, "KUDASARU", "MIZEN4"),
  F(2, <<"RI">>, "KUDASARU", "ITADAKI"), F(2, <<"RU">>, "KUDASARU", "SHUUSI"),
  F(2, <<"RE">>, "KUDASARU", "KATEI3"), F(0, <<"RA", "I">>, "KURAI", "KURAI"),
  F(0, <<"RU">>, "YOUGEN", "SHUUSI"), F(0, <<"RE">>, "YOUGEN", "KURE"),
  F(1, <<"RU">>, "YOUGEN", "SHUUSI"), F(1, <<"RE">>, "YOUGEN", "KATEI3")>>
fzk_gu == <<
  F(0, <<"RA", "I">>, "KURAI", "KURAI"),
  F(0, <<"RU", "MI">>, "GURUMI", "GURUMI")>>
fzk_ke == <<
  F(0, <<"DO">>, "KEDO", "KEDO"), F(1, <<"MO">>, "KEDO", "KEDO"),
  F(0, <<"RE", "DO">>, "KEDO", "KEDO"), F(2, <<"MO">>, "KEDO", "KEDO")>>
fzk_ko == <<
  F(0, <<>>, "YOUGEN", "KO"), F(0, <<"I">>, "YOUGEN", "MEIREI1"),
  F(0, <<"SO">>, "KOSO", "KOSO"), F(0, <<"TO">>, "KOTO", "KOTO")>>
fzk_go == <<
  F(0, <<"ZA", "I">>, "GOZAI", "GOZAI"),
  F(0, <<"TO", "KI">>, "GOTOSI", "GOTOKI"),
  F(1, <<"KU">>, "GOTOSI", "GOTOKU"), F(1, <<"SI">>, "GOTOSI", "GOTOSI")>>
fzk_sa == <<
  F(0, <<>>, "SA1", "MIZEN1"), F(0, <<>>, "SA2", "SHUUJO"),
  F(0, <<"E">>, "SAE", "SAE"), F(0, <<"SE">>, "SASERU", "SASE"),
  F(1, <<"YO">>, "SASERU", "MEIREI2"), F(1, <<"RU">>, "SASERU", "SHUUSI"),
  F(1, <<"RE">>, "SASERU", "KATEI2"), F(1, <<"RO">>, "SASERU", "MEIREI1")>>
fzk_za == <<
  F(0, <<"RU">>, "ZARU", "ZARU"), F(0, <<"RE">>, "ZARU", "KATEI2")>>
fzk_si == <<
  F(0, <<>>, "SI1", "SI1"), F(0, <<>>, "SI2", "SI2"),
  F(0, <<>>, "N_SI", "N_SI"), F(0, <<"KA">>, "SIKA", "SIKA"),
  F(0, <<"TE">>, "SITE", "SITE"), F(0, <<"MA", "I">>, "YOUGEN", "IKI"),
  F(1, <<"U">>, "YOUGEN", "SHUUSI"), F(1, <<"E">>, "YOUGEN", "IKE"),
  F(1, <<"O", "U">>, "YOUGEN", "AROU"), F(1, <<"XTU">>, "YOUGEN", "ONBIN6"),
  F(1, <<"WA">>, "YOUGEN", "MIZEN5"), F(0, <<"RO">>, "SIRO", "MEIREI1")>>
fzk_ji == <<
  F(0, <<"MA", "I">>, "JIMAU", "IKI"), F(1, <<"U">>, "JIMAU", "SHUUSI"),
  F(1, <<"E">>, "JIMAU", "IKE"), F(1, <<"O", "U">>, "JIMAU", "AROU"),
  F(1, <<"XTU">>, "JIMAU", "ONBIN6"), F(1, <<"WA">>, "JIMAU", "MIZEN5"),
  F(0, <<"XYA">>, "JYA", "JYA"), F(1, <<"I">>, "JYAU", "IKI"),
  F(1, <<"U">>, "JYAU", "SHUUSI"), F(1, <<"E">>, "JYAU", "IKE"),
  F(1, <<"O", "U">>, "JYAU", "AROU"), F(1, <<"XTU">>, "JYAU", "ONBIN6"),
  F(1, <<"WA">>, "JYAU", "MIZEN5")>>
fzk_su == <<
  F(0, <<"GI">>, "SUGIRU", "SUGI"), F(1, <<"RU">>, "SUGIRU", "SHUUSI"),
  F(1, <<"RE">>, "SUGIRU", "KATEI2"),
  F(0, <<"BE", "KA", "RA">>, "SUBESI", "BEKARA"),
  F(1, <<"KI">>, "SUBESI", "BEKI"), F(1, <<"KU">>, "SUBESI", "BEKU"),
  F(1, <<"SI">>, "SUBESI", "BESI"), F(0, <<"RA">>, "SURA", "SURA"),
  F(0, <<"RU">>, "SURU", "SHUUSI"), F(0, <<"RE">>, "SURE", "KATEI2")>>
fzk_zu == <<
  F(0, <<>>, "ZU", "ZU"), F(0, <<"TU">>, "ZUTU", "ZUTU"),
  F(0, <<"NI", "I">>, "ZU", "I"), F(2, <<"RU">>, "ZU", "SHUUSI"),
  F(0, <<"NN", "BA">>, "ZUNBA", "CUT")>>
fzk_se == <<
  F(0, <<>>, "SE", "MIZEN2"), F(0, <<>>, "SERU", "SASE"),
  F(0, <<"YO">>, "SEYO", "MEIREI2"), F(1, <<>>, "SERU", "MEIREI2"),
  F(0, <<"RU">>, "SERU", "SHUUSI"), F(0, <<"RE">>, "SERU", "KATEI2"),
  F(0, <<"RO">>, "SERU", "MEIREI1")>>
fzk_ze == <<
  F(0, <<>>, "ZE", "SHUUJO")>>
fzk_so == <<
  F(0, <<"U">>, "SOUDA", "SOU"), F(1, <<"DA">>, "SOUDA", "SOUDA"),
  F(2, <<"XTU">>, "YOUTAI", "ONBIN1"), F(2, <<"RO", "U">>, "YOUTAI", "DAROU"),
  F(1, <<"DE">>, "SOUDA", "SOUDE"), F(2, <<"SI">>, "SOUDA", "DESHI"),
  F(3, <<"XYO">>, "YOUTAI", "SHO"), F(4, <<"U">>, "YOUTAI", "DESHOU"),
  F(2, <<"SU">>, "SOUDA", "SOUDESU"), F(1, <<"NA">>, "DENBUN", "SOUNA1"),
  F(2, <<>>, "YOUTAI", "SOUNA2"), F(2, <<"RA">>, "SOUDA", "KATEI1"),
  F(1, <<"NI">>, "YOUTAI", "SOUNI")>>
fzk_zo == <<
  F(0, <<>>, "ZO", "SHUUJO")>>
fzk_ta == <<
  F(0, <<>>, "TA", "TA"), F(0, <<"I">>, "TAI", "TAI"),
  F(0, <<"KA", "XTU">>, "TAI", "ONBIN1"), F(1, <<"RO", "U">>, "TAI", "KAROU"),
  F(0, <<"GA", "XTU">>, "TAGARU", "ONBIN6"),
  F(1, <<"RA">>, "TAGARU", "TAGARA"), F(1, <<"RI">>, "TAGARU", "TAGARI"),
  F(1, <<"RU">>, "TAGARU", "SHUUSI"), F(1, <<"RE">>, "TAGARU", "KATEI3"),
  F(1, <<"RO", "U">>, "TAGARU", "KAROU"), F(0, <<"KU">>, "TAI", "TAKU"),
  F(0, <<"KE", "RE">>, "TAI", "KATEI3"), F(0, <<"MA", "I">>, "TAMAU", "IKI"),
  F(1, <<"U">>, "TAMAU", "SHUUSI"), F(1, <<"E">>, "TAMAU", "KAMEI"),
  F(1, <<"XTU">>, "TAMAU", "ONBIN6"), F(1, <<"WA">>, "TAMAU", "MIZEN5"),
  F(0, <<"ME">>, "TAME", "TAME"), F(0, <<"RA">>, "TA", "KATEI1"),
  F(0, <<"RI">>, "TA", "TARI"), F(0, <<"RU">>, "TARU", "CUT"),
  F(0, <<"RO", "U">>, "TA", "KAROU")>>
fzk_da == <<
  F(0, <<>>, "DA1", "TA"), F(0, <<>>, "DA2", "DSHUUSI1"),
  F(0, <<"KE">>, "DAKE", "DAKE"), F(0, <<"XTU">>, "DAXTU", "ONBIN1"),
  F(0, <<"NO">>, "DANO", "DANO"), F(0, <<"RA">>, "DA1", "KATEI1"),
  F(1, <<"KE">>, "DARAKE", "DARAKE"), F(0, <<"RI">>, "DA1", "TARI"),
  F(0, <<"RO", "U">>, "DAROU", "DAROU")>>
fzk_ti == <<
  F(0, <<"MA", "I">>, "TIMAU", "IKI"), F(1, <<"U">>, "TIMAU", "SHUUSI"),
  F(1, <<"E">>, "TIMAU", "IKE"), F(1, <<"O", "U">>, "TIMAU", "AROU"),
  F(1, <<"XTU">>, "TIMAU", "ONBIN6"), F(1, <<"WA">>, "TIMAU", "MIZEN5"),
  F(0, <<"XYA">>, "TYA", "CUT"), F(1, <<"I">>, "TYAU", "IKI"),
  F(1, <<"U">>, "TYAU", "SHUUSI"), F(1, <<"E">>, "TYAU", "IKE"),
  F(1, <<"O", "U">>, "TYAU", "AROU"), F(1, <<"XTU">>, "TYAU", "ONBIN6"),
  F(1, <<"WA">>, "TYAU", "MIZEN5")>>
fzk_di == <<
  F(0, <<"XYA">>, "JYA", "JYA")>>
fzk_tu == <<
  F(0, <<"I", "TE">>, "TUITE", "TUITE"), F(0, <<"KI">>, "TUKI", "TUKI"),
  F(0, <<"TU">>, "TUTU", "TUTU"), F(0, <<"MO", "RI">>, "TUMORI", "TUMORI")>>
fzk_te == <<
  F(0, <<>>, "TE1", "TE1"), F(0, <<>>, "TE2", "TE2"),
  F(0, <<"RU">>, "TERU", "TERU")>>
fzk_de == <<
  F(0, <<>>, "DE", "DE"), F(0, <<>>, "DA1", "TE2"),
  F(0, <<"A", "RO", "U">>, "DEAROU", "AROU"),
  F(0, <<"KI">>, "DEKIRU", "DEKI"), F(1, <<"RU">>, "DEKIRU", "SHUUSI"),
  F(1, <<"RE">>, "DEKIRU", "KATEI3"), F(0, <<"SI">>, "DESI", "DESHI"),
  F(1, <<"XYO">>, "DESHO", "SHO"), F(2, <<"U">>, "DESHO", "DESHOU"),
  F(0, <<"SU">>, "DESU", "DESU"), F(0, <<"HA">>, "DEHA", "DEHA"),
  F(0, <<"RU">>, "DERU", "TERU")>>
fzk_to == <<
  F(0, <<>>, "TO1", "TO1"), F(0, <<>>, "TO2", "TO2"),
  F(0, <<"I">>, "TE2", "ONBIN8"), F(1, <<"U">>, "TOIU", "TOIU"),
  F(0, <<"O", "RI">>, "TOORI", "TOORI"), F(0, <<"KA">>, "TE2", "MIZEN5"),
  F(0, <<"KI">>, "TOKI", "TOKI"), F(1, <<>>, "TE2", "IKI"),
  F(0, <<"KU">>, "TE2", "SHUUSI"), F(0, <<"KE">>, "TE2", "IKE"),
  F(0, <<"KO">>, "TOKORO", "TOKORO"), F(1, <<"U">>, "TE2", "AROU"),
  F(1, <<"RO">>, "TOKORO", "TOKORO"), F(0, <<"XTU", "TE">>, "TOTTE", "TOTTE"),
  F(0, <<"TE">>, "TOTE", "TOTE"),
  F(0, <<"HA", "I", "E">>, "TOHAIE", "TOHAIE"),
  F(0, <<"MO">>, "TOMO", "TOMO")>>
fzk_do == <<
  F(0, <<>>, "DO", "DO"), F(0, <<"I">>, "DA1", "ONBIN8"),
  F(0, <<"O", "RI">>, "DOORI", "DOORI"), F(0, <<"KA">>, "DA1", "MIZEN5"),
  F(0, <<"KI">>, "DA1", "IKI"), F(0, <<"KU">>, "DA1", "SHUUSI"),
  F(0, <<"KE">>, "DA1", "IKE"), F(0, <<"KO", "U">>, "DA1", "AROU"),
  F(1, <<"RO">>, "DOKORO", "DOKORO"), F(2, <<"KA">>, "DOKOROKA", "DOKOROKA"),
  F(0, <<"MO">>, "DOMO", "DOMO")>>
fzk_na == <<
  F(0, <<>>, "NA1", "SHUUJO"), F(0, <<>>, "NA2", "NA2"),
  F(0, <<"XA">>, "NAA", "SHUUJO"), F(0, <<"A">>, "NAA", "SHUUJO"),
  F(0, <<"I">>, "NAI", "NAI"), F(1, <<"DE">>, "NAI", "NAIDE"),
  F(0, <<"KA", "XTU">>, "NAI", "ONBIN1"), F(1, <<"RO", "U">>, "NAI", "KAROU"),
  F(0, <<"GA", "RA">>, "NAGARA", "NAGARA"), F(2, <<>>, "NAGARA2", "NAGARA2"),
  F(0, <<"KI", "XYA">>, "NAI", "CUT"), F(0, <<"KU">>, "NAI", "NAKU"),
  F(0, <<"KE", "RE">>, "NAI", "KATEI3"),
  F(0, <<"SA", "I">>, "NASAI", "NASAI"), F(1, <<"RA">>, "NASARU", "MIZEN4"),
  F(1, <<"RI">>, "NASARU", "ITADAKI"), F(1, <<"RU">>, "NASARU", "SHUUSI"),
  F(1, <<"RE">>, "NASARU", "KATEI3"), F(2, <<"RU">>, "NASARU", "SHUUSI"),
  F(0, <<"ZO">>, "NAZO", "NAZO"), F(0, <<"XTU">>, "NARU", "ONBIN2"),
  F(0, <<"DO">>, "NADO", "NADO"), F(0, <<"YO">>, "NA1", "SHUUJO"),
  F(0, <<"RA">>, "NARA", "KATEI1"), F(1, <<>>, "NARU", "MIZEN5"),
  F(0, <<"RI">>, "NARI", "NARI"), F(1, <<>>, "NARU", "IKI"),
  F(0, <<"RU">>, "NARU", "SHUUSI"), F(0, <<"RE">>, "NARU", "IKE"),
  F(0, <<"RO", "U">>, "NARU", "AROU"), F(0, <<"NN", "KA">>, "NANKA", "NANKA"),
  F(1, <<"ZO">>, "NANZO", "NANZO"), F(1, <<"TE">>, "NANTE", "NANTE")>>
fzk_ni == <<
  F(0, <<>>, "NI1", "NI1"), F(0, <<>>, "NI2", "NI2"),
  F(0, <<>>, "NI3", "NI3"), F(0, <<"KU", "I">>, "NIKUI", "KSHUUSI"),
  F(1, <<"KA", "XTU">>, "NIKUI", "ONBIN1"),
  F(2, <<"RO", "U">>, "NIKUI", "KAROU"), F(1, <<"KU">>, "NIKUI", "TAKU"),
  F(1, <<"KE", "RE">>, "NIKUI", "KATEI3"),
  F(1, <<"SA">>, "NIKUI", "FZKMEISI"), F(0, <<"TE">>, "NITE", "NITE"),
  F(0, <<"DE", "MO">>, "NI1", "MO1"), F(0, <<"MO">>, "NIMO", "NIMO")>>
fzk_nu == <<
  F(0, <<>>, "NU", "NU")>>
fzk_ne == <<
  F(0, <<>>, "NE1", "SHUUJO"), F(0, <<>>, "NE2", "KATEI2"),
  F(0, <<"E">>, "NEE", "SHUUJO")>>
fzk_no == <<
  F(0, <<>>, "NO1", "NO1"), F(0, <<>>, "NO2", "NO2"),
  F(0, <<"DE">>, "NODE", "NODE"), F(0, <<"NI">>, "NONI", "NONI"),
  F(0, <<"MI">>, "NOMI", "NOMI"),
  F(1, <<"NA", "RA", "ZU">>, "NOMINRZ", "NOMINRZ")>>
fzk_ha == <<
  F(0, <<>>, "HA", "HA"), F(0, <<"SI">>, "HA", "HASI"),
  F(0, <<"ZU">>, "HAZU", "HAZU")>>
fzk_ba == <<
  F(0, <<>>, "BA", "BA"), F(0, <<"KA", "SI">>, "BAKARI", "BAKARI"),
  F(1, <<"RI">>, "BAKARI", "BAKARI"),
  F(0, <<"XTU", "KA", "SI">>, "BAKARI", "BAKARI"),
  F(2, <<"RI">>, "BAKARI", "BAKARI")>>
fzk_hu == <<
  F(0, <<"U", "DA">>, "FUUDA", "SOUDA"), F(2, <<"XTU">>, "FUUDA", "ONBIN1"),
  F(2, <<"RO", "U">>, "FUUDA", "DAROU"), F(1, <<"DE">>, "FUUDA", "SOUDE"),
  F(2, <<"SI">>, "FUUDA", "DESHI"), F(3, <<"XYO">>, "FUUDA", "SHO"),
  F(4, <<"U">>, "FUUDA", "DESHOU"), F(2, <<"SU">>, "FUUDA", "SOUDESU"),
  F(1, <<"NA">>, "FUUDA", "SOUNA2"), F(2, <<"RA">>, "FUUDA", "KATEI1"),
  F(1, <<"NI">>, "FUUDA", "FUUNI")>>
fzk_he == <<
  F(0, <<>>, "HE", "HE")>>
fzk_be == <<
  F(0, <<"KA", "RA">>, "BESI", "BEKARA"), F(0, <<"KI">>, "BESI", "BEKI"),
  F(0, <<"KU">>, "BESI", "BEKU"), F(0, <<"SI">>, "BESI", "BESI")>>
fzk_ho == <<
  F(0, <<"U">>, "HOU", "HOU"), F(0, <<"KA">>, "HOKA", "HOKA"),
  F(0, <<"DO">>, "HODO", "HODO")>>
fzk_ma == <<
  F(0, <<"I">>, "MAI", "MAI"), F(0, <<"SI">>, "MASU", "DESHI"),
  F(1, <<>>, "MASU", "MEIREI2"), F(1, <<"XYO">>, "MASU", "SHO"),
  F(2, <<"U">>, "MASU", "DESHOU"), F(0, <<"SU">>, "MASU", "MASU"),
  F(1, <<"RE">>, "MASURE", "KATEI2"), F(0, <<"SE">>, "MASE", "MEIREI1"),
  F(1, <<"NU">>, "MASU", "NU"), F(1, <<"NN">>, "MASU", "NN2"),
  F(0, <<"DE">>, "MADE", "MADE"), F(0, <<"MA">>, "MAMA", "MAMA")>>
fzk_mi == <<
  F(0, <<>>, "YOUGEN", "MI"), F(0, <<"TA", "I">>, "MITAIDA", "MITAI"),
  F(2, <<"DA">>, "MITAIDA", "MITAIDA"), F(3, <<"XTU">>, "MITAIDA", "ONBIN1"),
  F(3, <<"RO", "U">>, "MITAIDA", "DAROU"), F(2, <<"DE">>, "MITAIDA", "SOUDE"),
  F(3, <<"SI">>, "MITAIDA", "DESHI"), F(4, <<"XYO">>, "MITAIDA", "SHO"),
  F(5, <<"U">>, "MITAIDA", "DESHOU"), F(3, <<"SU">>, "MITAIDA", "SOUDESU"),
  F(2, <<"NA">>, "MITAIDA", "SOUNA2"), F(3, <<"RA">>, "MITAIDA", "KATEI1"),
  F(2, <<"NI">>, "MITAIDA", "FUUNI"), F(0, <<"YO">>, "YOUGEN", "MEIREI2"),
  F(0, <<"RU">>, "YOUGEN", "SHUUSI"), F(0, <<"RE">>, "YOUGEN", "KATEI2"),
  F(0, <<"RO">>, "YOUGEN", "MEIREI1")>>
fzk_mo == <<
  F(0, <<>>, "MO1", "MO1"), F(0, <<>>, "MO2", "MO2"),
  F(0, <<"XTU", "TE">>, "MOTTE", "MOTTE"), F(0, <<"NO">>, "MONO", "MONO"),
  F(0, <<"RA", "I">>, "YOUGEN", "IKI"), F(1, <<"U">>, "YOUGEN", "SHUUSI"),
  F(1, <<"E">>, "YOUGEN", "IKE"), F(1, <<"O", "U">>, "YOUGEN", "AROU"),
  F(1, <<"XTU">>, "YOUGEN", "ONBIN2"), F(1, <<"WA">>, "YOUGEN", "MIZEN5"),
  F(0, <<"NN">>, "WAYO", "SHUUJO"), F(1, <<"KA">>, "WAYO", "SHUUJO")>>
fzk_ya == <<
  F(0, <<>>, "YA1", "YA1"), F(0, <<>>, "YA2", "YA2"),
  F(0, <<"SU", "I">>, "YASUI", "KSHUUSI"),
  F(1, <<"KA", "XTU">>, "YASUI", "ONBIN1"),
  F(2, <<"RO", "U">>, "YASUI", "KAROU"), F(1, <<"KU">>, "YASUI", "TAKU"),
  F(1, <<"KE", "RE">>, "YASUI", "KATEI3"),
  F(1, <<"SA">>, "YASUI", "FZKMEISI"), F(0, <<"XTU">>, "YOUGEN", "ONBIN2"),
  F(0, <<"RA">>, "YARA", "YARA"), F(1, <<>>, "YOUGEN", "MIZEN5"),
  F(0, <<"RI">>, "YOUGEN", "IKI"), F(0, <<"RU">>, "YOUGEN", "SHUUSI"),
  F(0, <<"RE">>, "YOUGEN", "KATEI2"), F(0, <<"RO", "U">>, "YOUGEN", "AROU")>>
fzk_yu == <<
  F(0, <<"E">>, "YUE", "YUE")>>
fzk_yo == <<
  F(0, <<>>, "YO", "SHUUJO"), F(0, <<"I">>, "YOI", "KSHUUSI"),
  F(0, <<"U">>, "YOU", "YOU1"), F(1, <<>>, "YOUDA", "YOU2"),
  F(1, <<"DA">>, "YOUDA", "SOUDA"), F(2, <<"XTU">>, "YOUDA", "ONBIN1"),
  F(2, <<"RO", "U">>, "YOUDA", "DAROU"), F(1, <<"DE">>, "YOUDA", "SOUDE"),
  F(2, <<"SI">>, "YOUDA", "DESHI"), F(3, <<"XYO">>, "YOUDA", "SHO"),
  F(4, <<"U">>, "YOUDA", "DESHOU"), F(2, <<"SU">>, "YOUDA", "SOUDESU"),
  F(1, <<"NA">>, "YOUDA", "SOUNA2"), F(2, <<"RA">>, "YOUDA", "KATEI1"),
  F(1, <<"NI">>, "YOUDA", "FUUNI"), F(0, <<"KA", "XTU">>, "YOI", "ONBIN1"),
  F(1, <<"RO", "U">>, "YOI", "KAROU"), F(0, <<"KU">>, "YOI", "TAKU"),
  F(0, <<"KE", "RE">>, "YOI", "KATEI3"), F(0, <<"SA">>, "YOI", "FZKMEISI"),
  F(0, <<"XTU", "TE">>, "YORU", "YOTTE"),
  F(0, <<"NA", "XA">>, "YO", "SHUUJO"), F(1, <<"A">>, "YO", "SHUUJO"),
  F(0, <<"NE">>, "YO", "SHUUJO"), F(0, <<"RA">>, "YORU", "MIZEN4"),
  F(0, <<"RI">>, "YORI", "YORI1"), F(1, <<>>, "YORU", "YORI2"),
  F(0, <<"RU">>, "YORU", "SHUUSI"), F(0, <<"RE">>, "YORU", "KATEI3")>>
fzk_ra == <<
  F(0, <<"SI", "I">>, "RASII", "RASII"),
  F(1, <<"KA", "XTU">>, "RASII", "ONBIN1"), F(1, <<"KI">>, "RASII", "GOTOKI"),
  F(1, <<"KU">>, "RASII", "TAKU"), F(1, <<"XYU", "U">>, "RASII", "RASHUU"),
  F(0, <<"RE">>, "RARERU", "RARE"), F(1, <<"YO">>, "RARERU", "MEIREI2"),
  F(1, <<"RU">>, "RARERU", "SHUUSI"), F(1, <<"RE">>, "RARERU", "KATEI2"),
  F(1, <<"RO">>, "RARERU", "MEIREI1")>>
fzk_re == <<
  F(0, <<>>, "RERU", "RARE"), F(0, <<"YO">>, "RERU", "MEIREI2"),
  F(0, <<"RU">>, "RERU", "SHUUSI"), F(0, <<"RE">>, "RERU", "KATEI2"),
  F(0, <<"RO">>, "RERU", "MEIREI1")>>
fzk_wa == <<
  F(0, <<>>, "WA", "SHUUJO"), F(0, <<"KE">>, "WAKE", "WAKE"),
  F(0, <<"NE">>, "WANE", "SHUUJO"), F(0, <<"YO">>, "WAYO", "SHUUJO")>>
fzk_nn == <<
  F(0, <<>>, "NN1", "NN1"), F(0, <<>>, "NN2", "NN2")>>

\* By first kana.
fzkadr == [
    A |-> fzk_a, I |-> fzk_i, U |-> fzk_u, E |-> fzk_e, O |-> fzk_o,
    KA |-> fzk_ka, GA |-> fzk_ga, KI |-> fzk_ki, KU |-> fzk_ku, GU |-> fzk_gu,
    KE |-> fzk_ke, KO |-> fzk_ko, GO |-> fzk_go, SA |-> fzk_sa, ZA |-> fzk_za,
    SI |-> fzk_si, ZI |-> fzk_ji, SU |-> fzk_su, ZU |-> fzk_zu, SE |-> fzk_se,
    ZE |-> fzk_ze, SO |-> fzk_so, ZO |-> fzk_zo, TA |-> fzk_ta, DA |-> fzk_da,
    TI |-> fzk_ti, DI |-> fzk_di, XTU |-> fzk_xtu, TU |-> fzk_tu,
    TE |-> fzk_te, DE |-> fzk_de, TO |-> fzk_to, DO |-> fzk_do, NA |-> fzk_na,
    NI |-> fzk_ni, NU |-> fzk_nu, NE |-> fzk_ne, NO |-> fzk_no, HA |-> fzk_ha,
    BA |-> fzk_ba, HU |-> fzk_hu, HE |-> fzk_he, BE |-> fzk_be, HO |-> fzk_ho,
    MA |-> fzk_ma, MI |-> fzk_mi, MO |-> fzk_mo, YA |-> fzk_ya, YU |-> fzk_yu,
    YO |-> fzk_yo, RA |-> fzk_ra, RE |-> fzk_re, WA |-> fzk_wa, WO |-> fzk_wo,
    NN |-> fzk_nn]

-----------------------------------------------------------------------------
S(y, h) == [yomi |-> y, hinsi |-> h, ka |-> FALSE]
\* One that turns the word before it into another (StbBakeru).
SKa(y, h) == [S(y, h) EXCEPT !.ka = TRUE]

name_stb == <<
  S(<<"KU", "NN">>, "MEISI_1"), S(<<"SA", "MA">>, "MEISI_1"),
  S(<<"SA", "NN">>, "MEISI_1"), S(<<"SI">>, "MEISI_1"),
  S(<<"TI", "XYA", "NN">>, "MEISI_1"), S(<<"DO", "NO">>, "MEISI_1")>>
timei_stb == <<
  S(<<"E", "KI">>, "MEISI_1"), S(<<"E", "KI", "HA", "TU">>, "MEISI_1"),
  S(<<"E", "KI", "YU", "KI">>, "MEISI_1"), S(<<"GU", "NN">>, "MEISI_1"),
  S(<<"SI">>, "MEISI_1"), S(<<"TI", "XYO", "U">>, "MEISI_1"),
  S(<<"HA", "TU">>, "MEISI_1"), S(<<"MA", "TI">>, "MEISI_1"),
  S(<<"MU", "RA">>, "MEISI_1")>>
meisi_stb == <<
  S(<<"A", "TU", "KA", "I">>, "MEISI_6"), SKa(<<"KA">>, "MEISI_6"),
  S(<<"TE", "KI">>, "MEISI_8"),
  S(<<"NI", "TO", "MO", "NA", "I">>, "FUKUSI_1"),
  S(<<"NI", "TO", "MO", "NA", "U">>, "FUKUSI_1"),
  S(<<"HU", "U">>, "MEISI_8")>>
sahen_stb == <<
  S(<<"A", "TU", "KA", "I">>, "MEISI_6"), SKa(<<"KA">>, "MEISI_6"),
  S(<<"GO">>, "MEISI_11"), S(<<"GO", "TO">>, "MEISI_11"),
  S(<<"ZI", "XYO", "U">>, "MEISI_11"), S(<<"TI", "XYU", "U">>, "MEISI_11"),
  S(<<"TE", "KI">>, "MEISI_8"),
  S(<<"NI", "TO", "MO", "NA", "I">>, "FUKUSI_1"),
  S(<<"NI", "TO", "MO", "NA", "U">>, "FUKUSI_1"), S(<<"HU", "U">>, "MEISI_8"),
  S(<<"MA", "E">>, "MEISI_11")>>
human_stb == <<
  S(<<"SA", "NN">>, "MEISI_1")>>
ippan_stb == <<
  S(<<"NI", "TO", "MO", "NA", "I">>, "FUKUSI_1"),
  S(<<"NI", "TO", "MO", "NA", "U">>, "FUKUSI_1")>>

\* The parts of speech of the stems that take them.
stbadr == [
    ippan_stb |-> {"MEISI_1", "MEISI_2", "MEISI_3", "MEISI_11", "D_MEISI_1",
    "D_MEISI_3", "D_MEISI_4", "D_MEISI_5", "D_MEISI_6", "MEISI_20"},
    meisi_stb |-> {"MEISI_4", "MEISI_8", "MEISI_9", "MEISI_10"},
    sahen_stb |-> {"MEISI_5", "MEISI_6", "MEISI_7"},
    human_stb |-> {"D_MEISI_2"}, name_stb |-> {"MYOUJI", "NAMAE"},
    timei_stb |-> {"TIMEI"}]

stbtables == [
    ippan_stb |-> ippan_stb, meisi_stb |-> meisi_stb, sahen_stb |-> sahen_stb,
    human_stb |-> human_stb, name_stb |-> name_stb, timei_stb |-> timei_stb]
=============================================================================
