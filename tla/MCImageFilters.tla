---- MODULE MCImageFilters ----
(* Each program on three images, two of which share their last name, with two *)
(* workers in each row; other numbers of workers, images that cannot be read  *)
(* and wrong command lines on the programs where they matter.                 *)
EXTENDS ImageFilters

MCBaseName == [p \in {"a/x", "b/x", "y", "bad"} |->
                  CASE p \in {"a/x", "b/x"} -> "x" [] OTHER -> p]
MCNumeral == ("0" :> 0) @@ ("1" :> 1) @@ ("3" :> 3)
MCReadable == {"a/x", "b/x", "y"}

three == <<"a/x", "b/x", "y">>

MCCommandLines ==
    {<<p, <<p>> \o three>> : p \in Magick}
        \union
    {<<p, <<p, "-r", "1", "-n", "1">> \o three>> : p \in {"img_farm2", "img_farm+pipe"}}
        \union
    {<<p, <<p, "y", "bad">>>> : p \in {"img", "img_farm", "img_farm3"}}
        \union
    {<<"img_farm", <<"img_farm", "-n", "3", "a/x", "y">>>>,
     <<"img_pipe+farm", <<"img_pipe+farm", "-m", "1", "-s", "1", "-n", "3", "a/x", "y">>>>,
     <<"img_pipe+farm", <<"img_pipe+farm", "-m", "0", "y">>>>,
     <<"img_pipe", <<"img_pipe">>>>,
     <<"img", <<"img", "-r", "1">>>>,
     <<"sobel", <<"sobel", "a/x", "bad", "b/x">>>>,
     <<"ffsobel", <<"ffsobel", "-m", "3", "a/x", "bad", "b/x">>>>,
     <<"ffsobel", <<"ffsobel", "-m", "3">>>>,
     <<"ffsobel2", <<"ffsobel2", "a/x", "bad", "b/x">>>>,
     <<"ffsobel2", <<"ffsobel2", "y">>>>}
====
