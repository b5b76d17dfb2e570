------------------------------- MODULE MCAnswers -------------------------------
(* Instances of Answers: a question of each function, eval asking each type. *)
EXTENDS Answers

Text(s) == [str |-> s]
MCLevelKeys == <<"0", "1", "2">>

Plain   == [instructions |-> Text("i")]
Choice  == [instructions |-> Text("i"),
            criteria |-> [obj |-> [a |-> [null |-> TRUE], b |-> Text("B")]]]
Score   == [instructions |-> Text("i"), criteria |-> [arr |-> <<Text("L"), Text("M"), Text("H")>>]]
Noul    == [instructions |-> Text("i"), criteria |-> [obj |-> ("true" :> Text("yes"))]]

Call(f, q)    == [name |-> f, args |-> q]
Eval(type, q) == Call("jev_eval", With(q, "type", Text(type)))

MCCalls ==
  { Call("jev", Plain), Call("jev_noul", Noul), Call("jev_choice", Choice), Call("jev_score", Score),
    Eval("noul", Noul), Eval("choice", Choice), Eval("score", Score) }

MCJunk == { [null |-> TRUE], [num |-> 0], [num |-> 2], [num |-> 99], [num |-> 101], [num |-> -1],
            Text("?"), Text("a"), [obj |-> <<>>], [arr |-> <<>>] }

(* Distributions in sixths of a Unit: all of them over two criteria; over  *)
(* three, those near the ends, the thirds and the halves, the third        *)
(* criterion taking what is left.                                          *)
Whole   == Unit * Fine
Edges   == (0 .. 7) \cup (Whole \div 3 - 6 .. Whole \div 3 + 6) \cup (Whole \div 2 - 3 .. Whole \div 2 + 3)
Truths2 == { <<i, Whole - i>> : i \in 0 .. Whole }
Truths3 == { <<i, j, Whole - i - j>> : i, j \in Edges }
MCTruths == <<{<<Whole>>}, Truths2, { t \in Truths3 : t[3] >= 0 }>>
MCSamples == <<{<<600>>}, {<<600, 0>>, <<201, 399>>}, {<<0, 0, 600>>, <<201, 198, 201>>, <<399, 201, 0>>}>>
================================================================================
