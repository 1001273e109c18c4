---- MODULE MCCompressFarm ----
(* Three regular files, two of them with the same base name, a directory and *)
(* an empty file; one to three workers behind channels of one entry.         *)
EXTENDS CompressFarm

MCKind == [p \in {"a", "d/a", "b", "dir", "empty"} |->
    CASE p = "dir" -> "special" [] p = "empty" -> "empty" [] OTHER -> "regular"]
MCBaseName == [p \in {"a", "d/a", "b", "dir", "empty"} |-> IF p = "d/a" THEN "a" ELSE p]
MCNumeral == [n \in {"1", "2", "3"} |-> CASE n = "1" -> 1 [] n = "2" -> 2 [] OTHER -> 3]

MCCommandLines == {
    <<"seq", <<"prog", "a", "empty", "d/a", "b">>>>,
    <<"pipe", <<"prog">>>>,
    <<"pipe", <<"prog", "a", "dir", "d/a">>>>,
    <<"farm", <<"prog", "a", "b", "d/a">>>>,
    <<"farm", <<"prog", "empty", "nowhere">>>>,
    <<"farm", <<"prog", "-n">>>>,
    <<"farm", <<"prog", "-n", "3", "b", "d/a", "a", "a", "a">>>>,
    <<"farm", <<"prog", "b", "-n", "1", "a">>>>,
    <<"my_farm", <<"prog", "2", "a", "d/a">>>>,
    <<"my_farm", <<"prog", "a", "b">>>>}
====
