---- MODULE MCSquares ----
(* Words of 4 and 7 bits and floats of 3: lengths that are kept, that wrap   *)
(* to a negative one or to a small one, and that no long holds; farms of     *)
(* none to three workers.                                                    *)
EXTENDS Squares

MCCommandLines ==
    ({"pipe_square", "my_pipe_square"} \X {<<>>, <<0>>, <<5>>, <<8>>, <<23>>, <<99>>})
        \union
    ({"farm_square", "my_farm_square"} \X {<<2>>, <<0, 3>>, <<1, 7>>, <<2, 0>>, <<2, 99>>})
        \union
    {<<"farm_square", <<2, 6>>>>, <<"farm_square", <<3, 4>>>>, <<"my_farm_square", <<2, 5>>>>, <<"farm_square", <<1, -60>>>>, <<"pipe_square", <<-3>>>>,
     <<"my_farm_square", <<-2, 3>>>>, <<"my_farm_square", <<2, 8>>>>, <<"my_farm_square", <<2, 22>>>>}
====
