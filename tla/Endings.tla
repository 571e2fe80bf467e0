------------------------------ MODULE Endings -------------------------------
(***************************************************************************)
(* The endings of inflected words (conjunc.c).  An entry is written with   *)
(* the part of its reading that the entry before it does not have: E(n, y, *)
(* r) shares the first n characters, goes on with y and ends a clause with *)
(* r.  The entries of a table are in the order of their readings.          *)
(***************************************************************************)

E(n, y, r) == [ask |-> n, nkr |-> y, right |-> r]

sahencnj == <<
  E(0, <<>>, "SGOKAN"), E(0, <<"SA">>, "MIZEN1"), E(0, <<"SI">>, "SI1"),
  E(1, <<"RO">>, "MEIREI1"), E(0, <<"SU", "RU">>, "SHUUSI"),
  E(2, <<"KA", "SI", "NA", "I", "KA">>, "KA1"), E(1, <<"RE">>, "KATEI2"),
  E(0, <<"SE">>, "MIZEN2"), E(1, <<"NA", "I">>, "NAI"),
  E(3, <<"DE">>, "NAIDE"), E(2, <<"KA", "XTU">>, "ONBIN1"),
  E(3, <<"RO", "U">>, "KAROU"), E(2, <<"KU">>, "NAKU"),
  E(2, <<"KE", "RE">>, "KATEI3"), E(1, <<"RA", "RE">>, "RARE"),
  E(3, <<"YO">>, "MEIREI2"), E(3, <<"RU">>, "SHUUSI"),
  E(3, <<"RE">>, "KATEI2"), E(3, <<"RO">>, "MEIREI1"),
  E(1, <<"YO">>, "MEIREI2")>>
zahencnj == <<
  E(0, <<>>, "CUT"), E(0, <<"ZI">>, "JI"), E(1, <<"YO">>, "MEIREI2"),
  E(1, <<"RU">>, "SHUUSI"), E(1, <<"RE">>, "KATEI2"),
  E(1, <<"RO">>, "MEIREI1"), E(0, <<"ZU", "RU">>, "SHUUSI"),
  E(1, <<"RE">>, "KATEI2"), E(0, <<"ZE">>, "MIZEN3"),
  E(1, <<"YO">>, "MEIREI2")>>
ka5cnj1 == <<
  E(0, <<"I">>, "ONBIN2"), E(0, <<"KA">>, "MIZEN5"),
  E(0, <<"KI">>, "RENYOU5"), E(0, <<"KU">>, "SHUUSI"),
  E(0, <<"KE">>, "KAMEI"), E(0, <<"KO", "U">>, "AROU")>>
ka5cnj3 == <<
  E(0, <<"I">>, "ONBIN2"), E(0, <<"KA">>, "MIZEN5"),
  E(0, <<"KI">>, "RENYOU7"), E(0, <<"KU">>, "SHUUSI"),
  E(0, <<"KE">>, "KAMEI"), E(0, <<"KO", "U">>, "AROU")>>
ka5cnj5 == <<
  E(0, <<"I">>, "ONBIN2"), E(0, <<"KA">>, "MIZEN5"), E(1, <<"SA">>, "MIZEN5"),
  E(1, <<"SI">>, "SA5RENYOU3"), E(1, <<"SU">>, "SHUUSI"),
  E(1, <<"SO", "U">>, "AROU"), E(0, <<"KI">>, "RENYOU5"),
  E(0, <<"KU">>, "SHUUSI"), E(0, <<"KE">>, "EXP"), E(1, <<"RU">>, "SHUUSI"),
  E(1, <<"RE">>, "KATEI2"), E(0, <<"KO", "U">>, "AROU")>>
ka5cnj7 == <<
  E(0, <<"I">>, "ONBIN2"), E(0, <<"KA">>, "MIZEN5"), E(1, <<"SA">>, "MIZEN5"),
  E(1, <<"SI">>, "SA5RENYOU3"), E(1, <<"SU">>, "SHUUSI"),
  E(1, <<"SO", "U">>, "AROU"), E(0, <<"KI">>, "RENYOU7"),
  E(0, <<"KU">>, "SHUUSI"), E(0, <<"KE">>, "EXP"), E(1, <<"RU">>, "SHUUSI"),
  E(1, <<"RE">>, "KATEI2"), E(0, <<"KO", "U">>, "AROU")>>
ga5cnj1 == <<
  E(0, <<"I">>, "ONBIN3"), E(0, <<"GA">>, "MIZEN5"),
  E(0, <<"GI">>, "RENYOU5"), E(0, <<"GU">>, "SHUUSI"),
  E(0, <<"GE">>, "KAMEI"), E(0, <<"GO", "U">>, "AROU")>>
ga5cnj3 == <<
  E(0, <<"I">>, "ONBIN3"), E(0, <<"GA">>, "MIZEN5"),
  E(0, <<"GI">>, "RENYOU7"), E(0, <<"GU">>, "SHUUSI"),
  E(0, <<"GE">>, "KAMEI"), E(0, <<"GO", "U">>, "AROU")>>
ga5cnj5 == <<
  E(0, <<"I">>, "ONBIN3"), E(0, <<"GA">>, "MIZEN5"), E(1, <<"SA">>, "MIZEN5"),
  E(1, <<"SI">>, "SA5RENYOU3"), E(1, <<"SU">>, "SHUUSI"),
  E(1, <<"SO", "U">>, "AROU"), E(0, <<"GI">>, "RENYOU5"),
  E(0, <<"GU">>, "SHUUSI"), E(0, <<"GE">>, "EXP"), E(1, <<"RU">>, "SHUUSI"),
  E(1, <<"RE">>, "KATEI2"), E(0, <<"GO", "U">>, "AROU")>>
ga5cnj7 == <<
  E(0, <<"I">>, "ONBIN3"), E(0, <<"GA">>, "MIZEN5"), E(1, <<"SA">>, "MIZEN5"),
  E(1, <<"SI">>, "SA5RENYOU3"), E(1, <<"SU">>, "SHUUSI"),
  E(1, <<"SO", "U">>, "AROU"), E(0, <<"GI">>, "RENYOU7"),
  E(0, <<"GU">>, "SHUUSI"), E(0, <<"GE">>, "EXP"), E(1, <<"RU">>, "SHUUSI"),
  E(1, <<"RE">>, "KATEI2"), E(0, <<"GO", "U">>, "AROU")>>
sa5cnj1 == <<
  E(0, <<"SA">>, "MIZEN5"), E(0, <<"SI">>, "SA5RENYOU1"),
  E(0, <<"SU">>, "SHUUSI"), E(0, <<"SE">>, "KAMEI"),
  E(0, <<"SO", "U">>, "AROU")>>
sa5cnj3 == <<
  E(0, <<"SA">>, "MIZEN5"), E(0, <<"SI">>, "SA5RENYOU3"),
  E(0, <<"SU">>, "SHUUSI"), E(0, <<"SE">>, "KAMEI"),
  E(0, <<"SO", "U">>, "AROU")>>
sa5cnj5 == <<
  E(0, <<"SA">>, "MIZEN5"), E(0, <<"SI">>, "SA5RENYOU1"),
  E(0, <<"SU">>, "SHUUSI"), E(0, <<"SE">>, "EXP"), E(1, <<"RU">>, "SHUUSI"),
  E(1, <<"RE">>, "KATEI2"), E(0, <<"SO", "U">>, "AROU")>>
sa5cnj7 == <<
  E(0, <<"SA">>, "MIZEN5"), E(0, <<"SI">>, "SA5RENYOU3"),
  E(0, <<"SU">>, "SHUUSI"), E(0, <<"SE">>, "EXP"), E(1, <<"RU">>, "SHUUSI"),
  E(1, <<"RE">>, "KATEI2"), E(0, <<"SO", "U">>, "AROU")>>
ta5cnj1 == <<
  E(0, <<"TA">>, "MIZEN5"), E(0, <<"TI">>, "RENYOU5"),
  E(0, <<"XTU">>, "ONBIN2"), E(0, <<"TU">>, "SHUUSI"),
  E(0, <<"TE">>, "KAMEI"), E(0, <<"TO", "U">>, "AROU")>>
ta5cnj3 == <<
  E(0, <<"TA">>, "MIZEN5"), E(0, <<"TI">>, "RENYOU7"),
  E(0, <<"XTU">>, "ONBIN2"), E(0, <<"TU">>, "SHUUSI"),
  E(0, <<"TE">>, "KAMEI"), E(0, <<"TO", "U">>, "AROU")>>
ta5cnj5 == <<
  E(0, <<"TA">>, "MIZEN5"), E(1, <<"SA">>, "MIZEN5"),
  E(1, <<"SI">>, "SA5RENYOU3"), E(1, <<"SU">>, "SHUUSI"),
  E(1, <<"SO", "U">>, "AROU"), E(0, <<"TI">>, "RENYOU5"),
  E(0, <<"XTU">>, "ONBIN2"), E(0, <<"TU">>, "SHUUSI"), E(0, <<"TE">>, "EXP"),
  E(1, <<"RU">>, "SHUUSI"), E(1, <<"RE">>, "KATEI2"),
  E(0, <<"TO", "U">>, "AROU")>>
ta5cnj7 == <<
  E(0, <<"TA">>, "MIZEN5"), E(1, <<"SA">>, "MIZEN5"),
  E(1, <<"SI">>, "SA5RENYOU3"), E(1, <<"SU">>, "SHUUSI"),
  E(1, <<"SO", "U">>, "AROU"), E(0, <<"TI">>, "RENYOU7"),
  E(0, <<"XTU">>, "ONBIN2"), E(0, <<"TU">>, "SHUUSI"), E(0, <<"TE">>, "EXP"),
  E(1, <<"RU">>, "SHUUSI"), E(1, <<"RE">>, "KATEI2"),
  E(0, <<"TO", "U">>, "AROU")>>
na5cnj == <<
  E(0, <<"NA">>, "MIZEN5"), E(0, <<"NI">>, "RENYOU5"),
  E(0, <<"NU">>, "SHUUSI"), E(0, <<"NE">>, "KAMEI"),
  E(0, <<"NO", "U">>, "AROU"), E(0, <<"NN">>, "ONBIN3")>>
ba5cnj1 == <<
  E(0, <<"BA">>, "MIZEN5"), E(0, <<"BI">>, "RENYOU5"),
  E(0, <<"BU">>, "SHUUSI"), E(0, <<"BE">>, "KAMEI"),
  E(0, <<"BO", "U">>, "AROU"), E(0, <<"NN">>, "ONBIN3")>>
ba5cnj3 == <<
  E(0, <<"BA">>, "MIZEN5"), E(0, <<"BI">>, "RENYOU7"),
  E(0, <<"BU">>, "SHUUSI"), E(0, <<"BE">>, "KAMEI"),
  E(0, <<"BO", "U">>, "AROU"), E(0, <<"NN">>, "ONBIN3")>>
ba5cnj5 == <<
  E(0, <<"BA">>, "MIZEN5"), E(1, <<"SA">>, "MIZEN5"),
  E(1, <<"SI">>, "SA5RENYOU3"), E(1, <<"SU">>, "SHUUSI"),
  E(1, <<"SO", "U">>, "AROU"), E(0, <<"BI">>, "RENYOU5"),
  E(0, <<"BU">>, "SHUUSI"), E(0, <<"BE">>, "EXP"), E(1, <<"RU">>, "SHUUSI"),
  E(1, <<"RE">>, "KATEI2"), E(0, <<"BO", "U">>, "AROU"),
  E(0, <<"NN">>, "ONBIN3")>>
ba5cnj7 == <<
  E(0, <<"BA">>, "MIZEN5"), E(1, <<"SA">>, "MIZEN5"),
  E(1, <<"SI">>, "SA5RENYOU3"), E(1, <<"SU">>, "SHUUSI"),
  E(1, <<"SO", "U">>, "AROU"), E(0, <<"BI">>, "RENYOU7"),
  E(0, <<"BU">>, "SHUUSI"), E(0, <<"BE">>, "EXP"), E(1, <<"RU">>, "SHUUSI"),
  E(1, <<"RE">>, "KATEI2"), E(0, <<"BO", "U">>, "AROU"),
  E(0, <<"NN">>, "ONBIN3")>>
ma5cnj1 == <<
  E(0, <<"MA">>, "MIZEN5"), E(0, <<"MI">>, "RENYOU5"),
  E(0, <<"MU">>, "SHUUSI"), E(0, <<"ME">>, "KAMEI"),
  E(0, <<"MO", "U">>, "AROU"), E(0, <<"NN">>, "ONBIN3")>>
ma5cnj3 == <<
  E(0, <<"MA">>, "MIZEN5"), E(0, <<"MI">>, "RENYOU7"),
  E(0, <<"MU">>, "SHUUSI"), E(0, <<"ME">>, "KAMEI"),
  E(0, <<"MO", "U">>, "AROU"), E(0, <<"NN">>, "ONBIN3")>>
ma5cnj5 == <<
  E(0, <<"MA">>, "MIZEN5"), E(1, <<"SA">>, "MIZEN5"),
  E(1, <<"SI">>, "SA5RENYOU3"), E(1, <<"SU">>, "SHUUSI"),
  E(1, <<"SO", "U">>, "AROU"), E(0, <<"MI">>, "RENYOU5"),
  E(0, <<"MU">>, "SHUUSI"), E(0, <<"ME">>, "EXP"), E(1, <<"RU">>, "SHUUSI"),
  E(1, <<"RE">>, "KATEI2"), E(0, <<"MO", "U">>, "AROU"),
  E(0, <<"NN">>, "ONBIN3")>>
ma5cnj7 == <<
  E(0, <<"MA">>, "MIZEN5"), E(1, <<"SA">>, "MIZEN5"),
  E(1, <<"SI">>, "SA5RENYOU3"), E(1, <<"SU">>, "SHUUSI"),
  E(1, <<"SO", "U">>, "AROU"), E(0, <<"MI">>, "RENYOU7"),
  E(0, <<"MU">>, "SHUUSI"), E(0, <<"ME">>, "EXP"), E(1, <<"RU">>, "SHUUSI"),
  E(1, <<"RE">>, "KATEI2"), E(0, <<"MO", "U">>, "AROU"),
  E(0, <<"NN">>, "ONBIN3")>>
ra5cnj1 == <<
  E(0, <<"XTU">>, "ONBIN2"), E(0, <<"RA">>, "MIZEN5"),
  E(0, <<"RI">>, "RENYOU5"), E(0, <<"RU">>, "SHUUSI"),
  E(0, <<"RE">>, "KAMEI"), E(0, <<"RO", "U">>, "AROU")>>
ra5cnj3 == <<
  E(0, <<"XTU">>, "ONBIN2"), E(0, <<"RA">>, "MIZEN5"),
  E(0, <<"RI">>, "RENYOU7"), E(0, <<"RU">>, "SHUUSI"),
  E(0, <<"RE">>, "KAMEI"), E(0, <<"RO", "U">>, "AROU")>>
ra5cnj5 == <<
  E(0, <<"XTU">>, "ONBIN2"), E(0, <<"RA">>, "MIZEN5"),
  E(1, <<"SA">>, "MIZEN5"), E(1, <<"SI">>, "SA5RENYOU3"),
  E(1, <<"SU">>, "SHUUSI"), E(1, <<"SO", "U">>, "AROU"),
  E(0, <<"RI">>, "RENYOU5"), E(0, <<"RU">>, "SHUUSI"), E(0, <<"RE">>, "EXP"),
  E(1, <<"RU">>, "SHUUSI"), E(1, <<"RE">>, "KATEI2"),
  E(0, <<"RO", "U">>, "AROU")>>
ra5cnj7 == <<
  E(0, <<"XTU">>, "ONBIN2"), E(0, <<"RA">>, "MIZEN5"),
  E(1, <<"SA">>, "MIZEN5"), E(1, <<"SI">>, "SA5RENYOU3"),
  E(1, <<"SU">>, "SHUUSI"), E(1, <<"SO", "U">>, "AROU"),
  E(0, <<"RI">>, "RENYOU7"), E(0, <<"RU">>, "SHUUSI"), E(0, <<"RE">>, "EXP"),
  E(1, <<"RU">>, "SHUUSI"), E(1, <<"RE">>, "KATEI2"),
  E(0, <<"RO", "U">>, "AROU")>>
wa5cnj1 == <<
  E(0, <<"I">>, "RENYOU5"), E(0, <<"U">>, "SHUUSI"), E(0, <<"E">>, "KAMEI"),
  E(0, <<"O", "U">>, "AROU"), E(0, <<"XTU">>, "ONBIN2"),
  E(0, <<"WA">>, "MIZEN5")>>
wa5cnj3 == <<
  E(0, <<"I">>, "RENYOU7"), E(0, <<"U">>, "SHUUSI"), E(0, <<"E">>, "KAMEI"),
  E(0, <<"O", "U">>, "AROU"), E(0, <<"XTU">>, "ONBIN2"),
  E(0, <<"WA">>, "MIZEN5")>>
wa5cnj5 == <<
  E(0, <<"I">>, "RENYOU5"), E(0, <<"U">>, "SHUUSI"), E(0, <<"E">>, "EXP"),
  E(1, <<"RU">>, "SHUUSI"), E(1, <<"RE">>, "KATEI2"),
  E(0, <<"O", "U">>, "AROU"), E(0, <<"XTU">>, "ONBIN2"),
  E(0, <<"WA">>, "MIZEN5"), E(1, <<"SA">>, "MIZEN5"),
  E(1, <<"SI">>, "SA5RENYOU3"), E(1, <<"SU">>, "SHUUSI"),
  E(1, <<"SO", "U">>, "AROU")>>
wa5cnj7 == <<
  E(0, <<"I">>, "RENYOU7"), E(0, <<"U">>, "SHUUSI"), E(0, <<"E">>, "EXP"),
  E(1, <<"RU">>, "SHUUSI"), E(1, <<"RE">>, "KATEI2"),
  E(0, <<"O", "U">>, "AROU"), E(0, <<"XTU">>, "ONBIN2"),
  E(0, <<"WA">>, "MIZEN5"), E(1, <<"SA">>, "MIZEN5"),
  E(1, <<"SI">>, "SA5RENYOU3"), E(1, <<"SU">>, "SHUUSI"),
  E(1, <<"SO", "U">>, "AROU")>>
ichicnj1 == <<
  E(0, <<>>, "RENYOU1"), E(0, <<"YO">>, "MEIREI2"), E(0, <<"RU">>, "SHUUSI"),
  E(0, <<"RE">>, "KATEI2"), E(0, <<"RO">>, "MEIREI1")>>
ichicnj3 == <<
  E(0, <<>>, "RENYOU3"), E(0, <<"YO">>, "MEIREI2"), E(0, <<"RU">>, "SHUUSI"),
  E(0, <<"RE">>, "KATEI2"), E(0, <<"RO">>, "MEIREI1")>>
keiyou1 == <<
  E(0, <<>>, "KGOKAN"), E(0, <<"I">>, "KSHUUSI"),
  E(0, <<"KA", "XTU">>, "ONBIN1"), E(1, <<"RO", "U">>, "KAROU"),
  E(0, <<"KI">>, "KRENTAI"), E(0, <<"KU">>, "KRENYOU"),
  E(0, <<"KE", "RE">>, "KATEI2")>>
keiyou2 == <<
  E(0, <<>>, "KGOKAN"), E(0, <<"I">>, "KSHUUSI"),
  E(0, <<"KA", "XTU">>, "ONBIN1"), E(1, <<"RO", "U">>, "KAROU"),
  E(0, <<"KI">>, "KRENTAI"), E(0, <<"KU">>, "KRENYOU"),
  E(0, <<"KE", "RE">>, "KATEI2"), E(0, <<"SA">>, "FZKMEISI")>>
keiyou3 == <<
  E(0, <<>>, "KGOKAN"), E(0, <<"I">>, "KSHUUSI"),
  E(0, <<"KA", "XTU">>, "ONBIN1"), E(1, <<"RO", "U">>, "KAROU"),
  E(0, <<"KI">>, "KRENTAI"), E(0, <<"KU">>, "KRENYOU"),
  E(0, <<"KE", "RE">>, "KATEI2"), E(0, <<"GE">>, "DMEISI"),
  E(1, <<"DA">>, "DSHUUSI1"), E(2, <<"XTU">>, "ONBIN1"),
  E(2, <<"RO", "U">>, "DAROU"), E(1, <<"DE">>, "DRENYOU1"),
  E(1, <<"NA">>, "DRENTAI1"), E(2, <<"RA">>, "KATEI1"),
  E(2, <<"RI">>, "DSHUUSI2"), E(2, <<"RU">>, "DRENTAI3"),
  E(2, <<"RE">>, "KAMEI"), E(1, <<"NI">>, "DRENYOU2"),
  E(0, <<"SA">>, "FZKMEISI")>>
keiyou4 == <<
  E(0, <<>>, "KGOKAN"), E(0, <<"I">>, "KSHUUSI"),
  E(0, <<"KA", "XTU">>, "ONBIN1"), E(1, <<"RO", "U">>, "KAROU"),
  E(0, <<"GA", "XTU">>, "ONBIN2"), E(1, <<"RA">>, "MIZEN5"),
  E(1, <<"RI">>, "RENYOU5"), E(1, <<"RU">>, "SHUUSI"),
  E(1, <<"RE">>, "KAMEI"), E(1, <<"RO", "U">>, "AROU"),
  E(0, <<"KI">>, "KRENTAI"), E(0, <<"KU">>, "KRENYOU"),
  E(0, <<"KE", "RE">>, "KATEI2"), E(0, <<"SA">>, "FZKMEISI")>>
keiyou5 == <<
  E(0, <<>>, "KGOKAN"), E(0, <<"I">>, "KSHUUSI"),
  E(0, <<"KA", "XTU">>, "ONBIN1"), E(1, <<"RO", "U">>, "KAROU"),
  E(0, <<"GA", "XTU">>, "ONBIN2"), E(1, <<"RA">>, "MIZEN5"),
  E(1, <<"RI">>, "RENYOU5"), E(1, <<"RU">>, "SHUUSI"),
  E(1, <<"RE">>, "KAMEI"), E(1, <<"RO", "U">>, "AROU"),
  E(0, <<"KI">>, "KRENTAI"), E(0, <<"KU">>, "KRENYOU"),
  E(0, <<"KE", "RE">>, "KATEI2"), E(0, <<"GE">>, "DMEISI"),
  E(1, <<"DA">>, "DSHUUSI1"), E(2, <<"XTU">>, "ONBIN1"),
  E(2, <<"RO", "U">>, "DAROU"), E(1, <<"DE">>, "DRENYOU1"),
  E(1, <<"NA">>, "DRENTAI1"), E(2, <<"RA">>, "KATEI1"),
  E(2, <<"RI">>, "DSHUUSI2"), E(2, <<"RU">>, "DRENTAI3"),
  E(2, <<"RE">>, "KAMEI"), E(1, <<"NI">>, "DRENYOU2"),
  E(0, <<"SA">>, "FZKMEISI")>>
keiyou6 == <<
  E(0, <<>>, "KGOKAN"), E(0, <<"I">>, "KSHUUSI"),
  E(0, <<"KA", "XTU">>, "ONBIN1"), E(1, <<"RO", "U">>, "KAROU"),
  E(0, <<"KI">>, "KRENTAI"), E(0, <<"KU">>, "KRENYOU"),
  E(0, <<"KE", "RE">>, "KATEI2"), E(0, <<"GE">>, "DMEISI"),
  E(1, <<"DA">>, "DSHUUSI1"), E(2, <<"XTU">>, "ONBIN1"),
  E(2, <<"RO", "U">>, "DAROU"), E(1, <<"DE">>, "DRENYOU1"),
  E(1, <<"NA">>, "DRENTAI1"), E(2, <<"RA">>, "KATEI1"),
  E(2, <<"RI">>, "DSHUUSI2"), E(2, <<"RU">>, "DRENTAI3"),
  E(2, <<"RE">>, "KAMEI"), E(1, <<"NI">>, "DRENYOU2"),
  E(0, <<"SA">>, "FZKMEISI"), E(0, <<"ME">>, "DMEISI"),
  E(1, <<"DA">>, "DSHUUSI1"), E(2, <<"XTU">>, "ONBIN1"),
  E(2, <<"RO", "U">>, "DAROU"), E(1, <<"DE">>, "DRENYOU1"),
  E(1, <<"NA">>, "DRENTAI1"), E(2, <<"RA">>, "KATEI1"),
  E(2, <<"RI">>, "DSHUUSI2"), E(2, <<"RU">>, "DRENTAI3"),
  E(2, <<"RE">>, "KAMEI"), E(1, <<"NI">>, "DRENYOU2")>>
keiyou7 == <<
  E(0, <<>>, "KGOKAN"), E(0, <<"I">>, "KSHUUSI"),
  E(0, <<"KA", "XTU">>, "ONBIN1"), E(1, <<"RO", "U">>, "KAROU"),
  E(0, <<"GA", "XTU">>, "ONBIN2"), E(1, <<"RA">>, "MIZEN5"),
  E(1, <<"RI">>, "RENYOU5"), E(1, <<"RU">>, "SHUUSI"),
  E(1, <<"RE">>, "KAMEI"), E(1, <<"RO", "U">>, "AROU"),
  E(0, <<"KI">>, "KRENTAI"), E(0, <<"KU">>, "KRENYOU"),
  E(0, <<"KE", "RE">>, "KATEI2"), E(0, <<"GE">>, "DMEISI"),
  E(1, <<"DA">>, "DSHUUSI1"), E(2, <<"XTU">>, "ONBIN1"),
  E(2, <<"RO", "U">>, "DAROU"), E(1, <<"DE">>, "DRENYOU1"),
  E(1, <<"NA">>, "DRENTAI1"), E(2, <<"RA">>, "KATEI1"),
  E(2, <<"RI">>, "DSHUUSI2"), E(2, <<"RU">>, "DRENTAI3"),
  E(2, <<"RE">>, "KAMEI"), E(1, <<"NI">>, "DRENYOU2"),
  E(0, <<"SA">>, "FZKMEISI"), E(0, <<"ME">>, "DMEISI"),
  E(1, <<"DA">>, "DSHUUSI1"), E(2, <<"XTU">>, "ONBIN1"),
  E(2, <<"RO", "U">>, "DAROU"), E(1, <<"DE">>, "DRENYOU1"),
  E(1, <<"NA">>, "DRENTAI1"), E(2, <<"RA">>, "KATEI1"),
  E(2, <<"RI">>, "DSHUUSI2"), E(2, <<"RU">>, "DRENTAI3"),
  E(2, <<"RE">>, "KAMEI"), E(1, <<"NI">>, "DRENYOU2")>>
keiyou8 == <<
  E(0, <<>>, "KGOKAN"), E(0, <<"I">>, "KSHUUSI"),
  E(0, <<"KA", "XTU">>, "ONBIN1"), E(1, <<"RO", "U">>, "KAROU"),
  E(0, <<"GA", "XTU">>, "ONBIN2"), E(1, <<"RA">>, "MIZEN5"),
  E(1, <<"RI">>, "RENYOU5"), E(1, <<"RU">>, "SHUUSI"),
  E(1, <<"RE">>, "KAMEI"), E(1, <<"RO", "U">>, "AROU"),
  E(0, <<"KI">>, "KRENTAI"), E(0, <<"KU">>, "KRENYOU"),
  E(0, <<"KE", "RE">>, "KATEI2"), E(0, <<"GE">>, "DMEISI"),
  E(1, <<"DA">>, "DSHUUSI1"), E(2, <<"XTU">>, "ONBIN1"),
  E(2, <<"RO", "U">>, "DAROU"), E(1, <<"DE">>, "DRENYOU1"),
  E(1, <<"NA">>, "DRENTAI1"), E(2, <<"RA">>, "KATEI1"),
  E(2, <<"RI">>, "DSHUUSI2"), E(2, <<"RU">>, "DRENTAI3"),
  E(2, <<"RE">>, "KAMEI"), E(1, <<"NI">>, "DRENYOU2"),
  E(0, <<"SA">>, "FZKMEISI"), E(0, <<"MI">>, "FZKMEISI"),
  E(0, <<"ME">>, "DMEISI"), E(1, <<"DA">>, "DSHUUSI1"),
  E(2, <<"XTU">>, "ONBIN1"), E(2, <<"RO", "U">>, "DAROU"),
  E(1, <<"DE">>, "DRENYOU1"), E(1, <<"NA">>, "DRENTAI1"),
  E(2, <<"RA">>, "KATEI1"), E(2, <<"RI">>, "DSHUUSI2"),
  E(2, <<"RU">>, "DRENTAI3"), E(2, <<"RE">>, "KAMEI"),
  E(1, <<"NI">>, "DRENYOU2")>>
keiyou9 == <<
  E(0, <<>>, "KGOKAN"), E(0, <<"I">>, "KSHUUSI"),
  E(0, <<"KA", "XTU">>, "ONBIN1"), E(1, <<"RO", "U">>, "KAROU"),
  E(0, <<"GA", "XTU">>, "ONBIN2"), E(1, <<"RA">>, "MIZEN5"),
  E(1, <<"RI">>, "RENYOU5"), E(1, <<"RU">>, "SHUUSI"),
  E(1, <<"RE">>, "KAMEI"), E(1, <<"RO", "U">>, "AROU"),
  E(0, <<"KI">>, "KRENTAI"), E(0, <<"KU">>, "KRENYOU"),
  E(0, <<"KE", "RE">>, "KATEI2"), E(0, <<"GE">>, "DMEISI"),
  E(1, <<"DA">>, "DSHUUSI1"), E(2, <<"XTU">>, "ONBIN1"),
  E(2, <<"RO", "U">>, "DAROU"), E(1, <<"DE">>, "DRENYOU1"),
  E(1, <<"NA">>, "DRENTAI1"), E(2, <<"RA">>, "KATEI1"),
  E(2, <<"RI">>, "DSHUUSI2"), E(2, <<"RU">>, "DRENTAI3"),
  E(2, <<"RE">>, "KAMEI"), E(1, <<"NI">>, "DRENYOU2"),
  E(0, <<"SA">>, "FZKMEISI")>>
keiyou10 == <<
  E(0, <<>>, "KGOKAN"), E(0, <<"I">>, "KSHUUSI"),
  E(0, <<"KA", "XTU">>, "ONBIN1"), E(1, <<"RO", "U">>, "KAROU"),
  E(0, <<"GA", "XTU">>, "ONBIN2"), E(1, <<"RA">>, "MIZEN5"),
  E(1, <<"RI">>, "RENYOU5"), E(1, <<"RU">>, "SHUUSI"),
  E(1, <<"RE">>, "KAMEI"), E(1, <<"RO", "U">>, "AROU"),
  E(0, <<"KI">>, "KRENTAI"), E(0, <<"KU">>, "KRENYOU"),
  E(0, <<"KE", "RE">>, "KATEI2"), E(0, <<"GE">>, "DMEISI"),
  E(1, <<"DA">>, "DSHUUSI1"), E(2, <<"XTU">>, "ONBIN1"),
  E(2, <<"RO", "U">>, "DAROU"), E(1, <<"DE">>, "DRENYOU1"),
  E(1, <<"NA">>, "DRENTAI1"), E(2, <<"RA">>, "KATEI1"),
  E(2, <<"RI">>, "DSHUUSI2"), E(2, <<"RU">>, "DRENTAI3"),
  E(2, <<"RE">>, "KAMEI"), E(1, <<"NI">>, "DRENYOU2"),
  E(0, <<"SA">>, "FZKMEISI"), E(0, <<"ME">>, "DMEISI"),
  E(1, <<"DA">>, "DSHUUSI1"), E(2, <<"XTU">>, "ONBIN1"),
  E(2, <<"RO", "U">>, "DAROU"), E(1, <<"DE">>, "DRENYOU1"),
  E(1, <<"NA">>, "DRENTAI1"), E(2, <<"RA">>, "KATEI1"),
  E(2, <<"RI">>, "DSHUUSI2"), E(2, <<"RU">>, "DRENTAI3"),
  E(2, <<"RE">>, "KAMEI"), E(1, <<"NI">>, "DRENYOU2")>>
keiyou11 == <<
  E(0, <<>>, "KGOKAN"), E(0, <<"I">>, "KSHUUSI"),
  E(0, <<"KA", "XTU">>, "ONBIN1"), E(1, <<"RO", "U">>, "KAROU"),
  E(0, <<"KI">>, "KRENTAI"), E(0, <<"KU">>, "KRENYOU"),
  E(0, <<"KE", "RE">>, "KATEI2"), E(0, <<"SA">>, "FZKMEISI"),
  E(0, <<"MI">>, "FZKMEISI"), E(0, <<"ME">>, "DMEISI"),
  E(1, <<"DA">>, "DSHUUSI1"), E(2, <<"XTU">>, "ONBIN1"),
  E(2, <<"RO", "U">>, "DAROU"), E(1, <<"DE">>, "DRENYOU1"),
  E(1, <<"NA">>, "DRENTAI1"), E(2, <<"RA">>, "KATEI1"),
  E(2, <<"RI">>, "DSHUUSI2"), E(2, <<"RU">>, "DRENTAI3"),
  E(2, <<"RE">>, "KAMEI"), E(1, <<"NI">>, "DRENYOU2")>>
keidou1 == <<
  E(0, <<>>, "DGOKAN"), E(0, <<"DA">>, "DSHUUSI1"), E(1, <<"XTU">>, "ONBIN1"),
  E(1, <<"RO", "U">>, "DAROU"), E(0, <<"DE">>, "DRENYOU1"),
  E(0, <<"NA">>, "DRENTAI1"), E(1, <<"RA">>, "KATEI1"),
  E(1, <<"RI">>, "DSHUUSI2"), E(1, <<"RU">>, "DRENTAI3"),
  E(1, <<"RE">>, "KAMEI"), E(0, <<"NI">>, "DRENYOU2")>>
keidou2 == <<
  E(0, <<>>, "DGOKAN"), E(0, <<"TA", "RU">>, "DRENTAI2"),
  E(1, <<"RE">>, "KATEI2"), E(0, <<"TO">>, "DRENYOU3")>>
keidou4 == <<
  E(0, <<>>, "DGOKAN"), E(0, <<"SA">>, "FZKMEISI"),
  E(0, <<"DA">>, "DSHUUSI1"), E(1, <<"XTU">>, "ONBIN1"),
  E(1, <<"RO", "U">>, "DAROU"), E(0, <<"DE">>, "DRENYOU1"),
  E(0, <<"NA">>, "DRENTAI1"), E(1, <<"RA">>, "KATEI1"),
  E(1, <<"RI">>, "DSHUUSI2"), E(1, <<"RU">>, "DRENTAI3"),
  E(1, <<"RE">>, "KAMEI"), E(0, <<"NI">>, "DRENYOU2")>>
keidou9 == <<
  E(0, <<>>, "DGOKAN"), E(0, <<"DA">>, "DSHUUSI1"), E(1, <<"XTU">>, "ONBIN1"),
  E(1, <<"RO", "U">>, "DAROU"), E(0, <<"DE">>, "DRENYOU1"),
  E(0, <<"NA">>, "DRENTAI1"), E(1, <<"RA">>, "KATEI1"),
  E(1, <<"RI">>, "DSHUUSI2"), E(1, <<"RU">>, "DRENTAI3"),
  E(1, <<"RE">>, "KAMEI"), E(0, <<"NI">>, "DRENYOU2"), E(0, <<"NO">>, "CUT"),
  E(1, <<"KO", "TO">>, "KOTO")>>
sahenmeisi1 == <<
  E(0, <<>>, "SMEISI1"), E(0, <<"SA">>, "MIZEN1"), E(0, <<"SI">>, "SI1"),
  E(1, <<"RO">>, "MEIREI1"), E(0, <<"SU", "RU">>, "SHUUSI"),
  E(2, <<"KA", "SI", "NA", "I", "KA">>, "KA1"), E(1, <<"RE">>, "KATEI2"),
  E(0, <<"SE">>, "MIZEN2"), E(1, <<"YO">>, "MEIREI2")>>
sahenmeisi2 == <<
  E(0, <<>>, "SMEISI1"), E(0, <<"SA">>, "MIZEN1"), E(0, <<"SI">>, "SI1"),
  E(1, <<"RO">>, "MEIREI1"), E(0, <<"SU", "RU">>, "SHUUSI"),
  E(2, <<"KA", "SI", "NA", "I", "KA">>, "KA1"), E(1, <<"RE">>, "KATEI2"),
  E(0, <<"SE">>, "MIZEN2"), E(1, <<"YO">>, "MEIREI2")>>
keidoumeisi == <<
  E(0, <<>>, "DMEISI"), E(0, <<"SA">>, "FZKMEISI"),
  E(0, <<"DA">>, "DSHUUSI1"), E(1, <<"XTU">>, "ONBIN1"),
  E(1, <<"RO", "U">>, "DAROU"), E(0, <<"DE">>, "DRENYOU1"),
  E(0, <<"NA">>, "DRENTAI1"), E(1, <<"RA">>, "KATEI1"),
  E(1, <<"RI">>, "DSHUUSI2"), E(1, <<"RU">>, "DRENTAI3"),
  E(1, <<"RE">>, "KAMEI"), E(0, <<"NI">>, "DRENYOU2")>>
keiyoustb == <<
  E(0, <<>>, "KSTB"), E(0, <<"I">>, "KSHUUSI"),
  E(0, <<"KA", "XTU">>, "ONBIN1"), E(1, <<"RO", "U">>, "KAROU"),
  E(0, <<"KI">>, "KRENTAI"), E(0, <<"KU">>, "KRENYOU"),
  E(0, <<"KE", "RE">>, "KATEI2")>>
ichistb == <<
  E(0, <<>>, "ICHISETUBI"), E(0, <<"YO">>, "MEIREI2"),
  E(0, <<"RU">>, "SHUUSI"), E(0, <<"RE">>, "KATEI2"),
  E(0, <<"RO">>, "MEIREI1")>>
fukusi2 == <<
  E(0, <<>>, "FUKUSI"), E(0, <<"TO">>, "F_FUKUSI"), E(1, <<"SI">>, "SI1"),
  E(1, <<"HA">>, "F_FUKUSI")>>
fukusi3 == <<
  E(0, <<>>, "FUKUSI"), E(0, <<"SA">>, "MIZEN1"), E(0, <<"SI">>, "SI1"),
  E(1, <<"RO">>, "MEIREI1"), E(0, <<"SU", "RU">>, "SHUUSI"),
  E(2, <<"KA", "SI", "NA", "I", "KA">>, "KA1"), E(1, <<"RE">>, "KATEI2"),
  E(0, <<"SE">>, "MIZEN2"), E(1, <<"YO">>, "MEIREI2"),
  E(0, <<"TO">>, "F_FUKUSI"), E(1, <<"SI">>, "SI1"),
  E(1, <<"HA">>, "F_FUKUSI")>>
fukusi4 == <<
  E(0, <<>>, "FUKUSI"), E(0, <<"SA">>, "MIZEN1"), E(0, <<"SI">>, "SI1"),
  E(1, <<"RO">>, "MEIREI1"), E(0, <<"SU", "RU">>, "SHUUSI"),
  E(2, <<"KA", "SI", "NA", "I", "KA">>, "KA1"), E(1, <<"RE">>, "KATEI2"),
  E(0, <<"SE">>, "MIZEN2"), E(1, <<"YO">>, "MEIREI2")>>
fukusi5 == <<
  E(0, <<>>, "FUKUSI"), E(0, <<"NI">>, "F_FUKUSI")>>
fukusi6 == <<
  E(0, <<>>, "FUKUSI"), E(0, <<"MO">>, "F_FUKUSI")>>
fukusi7 == <<
  E(0, <<>>, "FUKUSI"), E(0, <<"NO">>, "F_FUKUSI")>>
fukusi8 == <<
  E(0, <<>>, "FUKUSI"), E(0, <<"DA">>, "DSHUUSI1"), E(1, <<"XTU">>, "ONBIN1"),
  E(0, <<"DE", "SI">>, "DESHI"), E(2, <<"XYO">>, "SHO"),
  E(3, <<"U">>, "DESHOU"), E(1, <<"SU">>, "DESU"), E(0, <<"TO">>, "F_FUKUSI"),
  E(1, <<"SI">>, "SI1"), E(1, <<"HA">>, "F_FUKUSI")>>
fukusi9 == <<
  E(0, <<>>, "FUKUSI"), E(0, <<"SA">>, "MIZEN1"), E(0, <<"SI">>, "SI1"),
  E(1, <<"RO">>, "MEIREI1"), E(0, <<"SU", "RU">>, "SHUUSI"),
  E(2, <<"KA", "SI", "NA", "I", "KA">>, "KA1"), E(1, <<"RE">>, "KATEI2"),
  E(0, <<"SE">>, "MIZEN2"), E(1, <<"YO">>, "MEIREI2"),
  E(0, <<"DA">>, "DSHUUSI1"), E(1, <<"XTU">>, "ONBIN1"),
  E(0, <<"DE", "SI">>, "DESHI"), E(2, <<"XYO">>, "SHO"),
  E(3, <<"U">>, "DESHOU"), E(1, <<"SU">>, "DESU"), E(0, <<"TO">>, "F_FUKUSI"),
  E(1, <<"SI">>, "SI1"), E(1, <<"HA">>, "F_FUKUSI"),
  E(0, <<"NO">>, "F_FUKUSI")>>

\* The table of a part of speech.
conjadr == [
    sahenmeisi1 |-> {"MEISI_5", "MEISI_6", "D_MEISI_4", "SETUBI_7"},
    sahenmeisi2 |-> {"MEISI_7"}, keidoumeisi |-> {"MEISI_8", "MEISI_9",
    "MEISI_10", "D_MEISI_5", "SETUBI_6"}, keiyoustb |-> {"SETUBI_5"},
    ichistb |-> {"SETUBI_8"}, fukusi2 |-> {"FUKUSI_2"},
    fukusi3 |-> {"FUKUSI_3"}, fukusi4 |-> {"FUKUSI_4"},
    fukusi5 |-> {"FUKUSI_5"}, fukusi6 |-> {"FUKUSI_6"},
    fukusi7 |-> {"FUKUSI_7"}, fukusi8 |-> {"FUKUSI_8"},
    fukusi9 |-> {"FUKUSI_9"}, keiyou1 |-> {"KEIYOUSI_1"},
    keiyou2 |-> {"KEIYOUSI_2"}, keiyou3 |-> {"KEIYOUSI_3"},
    keiyou4 |-> {"KEIYOUSI_4"}, keiyou5 |-> {"KEIYOUSI_5"},
    keiyou6 |-> {"KEIYOUSI_6"}, keiyou7 |-> {"KEIYOUSI_7"},
    keiyou8 |-> {"KEIYOUSI_8"}, keiyou9 |-> {"KEIYOUSI_9"},
    keiyou10 |-> {"KEIYOUSI_10"}, keiyou11 |-> {"KEIYOUSI_11"},
    keidou1 |-> {"KE_DOUSI_1", "KE_DOUSI_3", "KE_DOUSI_6", "KE_DOUSI_8"},
    keidou2 |-> {"KE_DOUSI_2"},
    keidou4 |-> {"KE_DOUSI_4", "KE_DOUSI_5", "KE_DOUSI_7"},
    keidou9 |-> {"KE_DOUSI_9"}, sahencnj |-> {"DO_SAHEN"},
    zahencnj |-> {"DO_ZAHEN"}, ichicnj1 |-> {"DO_1DAN_1", "DO_1DAN_2"},
    ka5cnj1 |-> {"DO_KAGO_1", "DO_KAGO_2"},
    ga5cnj1 |-> {"DO_GAGO_1", "DO_GAGO_2"},
    sa5cnj1 |-> {"DO_SAGO_1", "DO_SAGO_2"},
    ta5cnj1 |-> {"DO_TAGO_1", "DO_TAGO_2"}, na5cnj |-> {"DO_NAGO_1"},
    ba5cnj1 |-> {"DO_BAGO_1", "DO_BAGO_2"},
    ma5cnj1 |-> {"DO_MAGO_1", "DO_MAGO_2"},
    ra5cnj1 |-> {"DO_RAGO_1", "DO_RAGO_2"},
    wa5cnj1 |-> {"DO_WAGO_1", "DO_WAGO_2"},
    ka5cnj5 |-> {"DO_KAGO_5", "DO_KAGO_6"},
    ga5cnj5 |-> {"DO_GAGO_5", "DO_GAGO_6"},
    sa5cnj5 |-> {"DO_SAGO_5", "DO_SAGO_6"},
    ta5cnj5 |-> {"DO_TAGO_5", "DO_TAGO_6"},
    ba5cnj5 |-> {"DO_BAGO_5", "DO_BAGO_6"},
    ma5cnj5 |-> {"DO_MAGO_5", "DO_MAGO_6"},
    ra5cnj5 |-> {"DO_RAGO_5", "DO_RAGO_6"},
    wa5cnj5 |-> {"DO_WAGO_5", "DO_WAGO_6"},
    ichicnj3 |-> {"DO_1DAN_3", "DO_1DAN_4"},
    ka5cnj3 |-> {"DO_KAGO_3", "DO_KAGO_4"},
    ga5cnj3 |-> {"DO_GAGO_3", "DO_GAGO_4"},
    sa5cnj3 |-> {"DO_SAGO_3", "DO_SAGO_4"},
    ta5cnj3 |-> {"DO_TAGO_3", "DO_TAGO_4"},
    ba5cnj3 |-> {"DO_BAGO_3", "DO_BAGO_4"},
    ma5cnj3 |-> {"DO_MAGO_3", "DO_MAGO_4"},
    ra5cnj3 |-> {"DO_RAGO_3", "DO_RAGO_4"},
    wa5cnj3 |-> {"DO_WAGO_3", "DO_WAGO_4"},
    ka5cnj7 |-> {"DO_KAGO_7", "DO_KAGO_8"},
    ga5cnj7 |-> {"DO_GAGO_7", "DO_GAGO_8"},
    sa5cnj7 |-> {"DO_SAGO_7", "DO_SAGO_8"},
    ta5cnj7 |-> {"DO_TAGO_7", "DO_TAGO_8"},
    ba5cnj7 |-> {"DO_BAGO_7", "DO_BAGO_8"},
    ma5cnj7 |-> {"DO_MAGO_7", "DO_MAGO_8"},
    ra5cnj7 |-> {"DO_RAGO_7", "DO_RAGO_8"},
    wa5cnj7 |-> {"DO_WAGO_7", "DO_WAGO_8"}]

\* The tables by name.
Tables == [
    sahenmeisi1 |-> sahenmeisi1, sahenmeisi2 |-> sahenmeisi2,
    keidoumeisi |-> keidoumeisi, keiyoustb |-> keiyoustb, ichistb |-> ichistb,
    fukusi2 |-> fukusi2, fukusi3 |-> fukusi3, fukusi4 |-> fukusi4,
    fukusi5 |-> fukusi5, fukusi6 |-> fukusi6, fukusi7 |-> fukusi7,
    fukusi8 |-> fukusi8, fukusi9 |-> fukusi9, keiyou1 |-> keiyou1,
    keiyou2 |-> keiyou2, keiyou3 |-> keiyou3, keiyou4 |-> keiyou4,
    keiyou5 |-> keiyou5, keiyou6 |-> keiyou6, keiyou7 |-> keiyou7,
    keiyou8 |-> keiyou8, keiyou9 |-> keiyou9, keiyou10 |-> keiyou10,
    keiyou11 |-> keiyou11, keidou1 |-> keidou1, keidou2 |-> keidou2,
    keidou4 |-> keidou4, keidou9 |-> keidou9, sahencnj |-> sahencnj,
    zahencnj |-> zahencnj, ichicnj1 |-> ichicnj1, ka5cnj1 |-> ka5cnj1,
    ga5cnj1 |-> ga5cnj1, sa5cnj1 |-> sa5cnj1, ta5cnj1 |-> ta5cnj1,
    na5cnj |-> na5cnj, ba5cnj1 |-> ba5cnj1, ma5cnj1 |-> ma5cnj1,
    ra5cnj1 |-> ra5cnj1, wa5cnj1 |-> wa5cnj1, ka5cnj5 |-> ka5cnj5,
    ga5cnj5 |-> ga5cnj5, sa5cnj5 |-> sa5cnj5, ta5cnj5 |-> ta5cnj5,
    ba5cnj5 |-> ba5cnj5, ma5cnj5 |-> ma5cnj5, ra5cnj5 |-> ra5cnj5,
    wa5cnj5 |-> wa5cnj5, ichicnj3 |-> ichicnj3, ka5cnj3 |-> ka5cnj3,
    ga5cnj3 |-> ga5cnj3, sa5cnj3 |-> sa5cnj3, ta5cnj3 |-> ta5cnj3,
    ba5cnj3 |-> ba5cnj3, ma5cnj3 |-> ma5cnj3, ra5cnj3 |-> ra5cnj3,
    wa5cnj3 |-> wa5cnj3, ka5cnj7 |-> ka5cnj7, ga5cnj7 |-> ga5cnj7,
    sa5cnj7 |-> sa5cnj7, ta5cnj7 |-> ta5cnj7, ba5cnj7 |-> ba5cnj7,
    ma5cnj7 |-> ma5cnj7, ra5cnj7 |-> ra5cnj7, wa5cnj7 |-> wa5cnj7]

\* Those whose endings may stand behind long vowels (TYOUONFLG).
TYOUONFLG == {
  "keiyou1", "keiyou2", "keiyou3", "keiyou4", "keiyou5", "keiyou6", "keiyou7",
  "keiyou8", "keiyou9", "keiyou10", "keiyou11", "keidou1", "keidou2",
  "keidou4", "keidou9"}
=============================================================================
