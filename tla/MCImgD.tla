---- MODULE MCImgD ----
(* Up to three images, two of them with one name, on one or two connections; *)
(* hosts with different numbers of workers, an image that cannot be read, and *)
(* no image at all.                                                           *)
EXTENDS ImgD

MCBaseName == [p \in {"a/x", "b/x", "y", "bad"} |->
                  CASE p \in {"a/x", "b/x"} -> "x" [] OTHER -> p]
MCReadable == {"a/x", "b/x", "y"}

Line(a, b, paths) == [nwA |-> a, nwB |-> b, images |-> paths]

MCCommandLines ==
    {Line(1, 1, <<"a/x", "y">>), Line(2, 2, <<"a/x", "b/x", "y">>), Line(2, 1, <<"a/x", "y">>),
     Line(1, 2, <<"y", "a/x">>), Line(2, 2, <<"y", "bad">>), Line(1, 1, <<>>)}
====
