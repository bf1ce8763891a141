---------------------------- MODULE MCExprFilter ----------------------------
(* Ints of four bits and quads of five.  A front end of ints, one of quads *)
(* and one of doubles, each with the constants its folding rules look for; *)
(* a comparison, and one shifted left, are written before they start.  The *)
(* front end called narrowing turns quads to doubles and these to ints.    *)
EXTENDS ExprFilter, TLC

Param(x, ty) == [k |-> "param", ty |-> ty, args |-> <<>>, v |-> x]
Constants(vs, ty) == [n \in DOMAIN vs |-> Imm(vs[n], ty)]

MCPool(f) ==
  CASE f = "ints" ->
         <<Param("x", "I"), Param("y", "I"), Op("lt", "I", <<1, 2>>)>>
         \o Constants(<<-1, 0, 1, 2, 7>>, "I") \o <<Op("lsh", "I", <<3, 7>>)>>
    [] f \in {"quads", "narrowing"} ->
         <<Param("x", "I"), Param("q", "Q"), Op("lt", "I", <<1, 1>>)>>
         \o Constants(<<-16, -1, 0, 1>>, "Q") \o Constants(<<0, 1, 2>>, "I")
    [] f = "doubles" ->
         <<Param("x", "I"), Param("d", "D"), Param("e", "D"),
           Op("lt", "D", <<2, 3>>)>>
         \o Constants(<<Num(0), Num(1), NaN>>, "D") \o Constants(<<0>>, "I")

Doubles == {NaN, NegZero, Num(0), Num(-3)}
MCEnvs(f) ==
  CASE f = "ints" -> {("x" :> i) @@ ("y" :> j) : i \in {-8, -1, 0, 1, 7}, j \in {-8, 0, 3}}
    [] f \in {"quads", "narrowing"} ->
         {("x" :> i) @@ ("q" :> j) : i \in {-8, 0, 5}, j \in {-16, -1, 0, 1, 15}}
    [] f = "doubles" ->
         {("x" :> i) @@ ("d" :> a) @@ ("e" :> b) :
            i \in {-8, 7}, a \in Doubles, b \in Doubles}

All(ks, ty) == {[k |-> k, ty |-> ty] : k \in ks}
Arithmetic == {"add", "sub", "mul", "and", "or", "xor", "neg", "not"}
MCRequests(f) ==
  CASE f = "ints" ->
         All(Arithmetic \cup {"eq", "lt", "ge", "ltu", "gtu", "leu", "geu"}
             \cup Shifts \cup {"addx", "subx", "mulx", "cmov", "choose"}, "I")
         \cup All({"xt", "xf", "jt", "jf"}, "V")
    [] f = "quads" ->
         All(Arithmetic \cup Compares \cup Shifts, "Q")
         \cup All({"i2q", "ui2uq", "q2i", "q2d"}, "I")
    [] f = "narrowing" -> All({"q2d", "d2i"}, "I")
    [] f = "doubles" ->
         All({"add", "sub", "mul", "neg", "abs", "lt", "ge", "eq"}, "D")
         \cup All({"i2d", "ui2d", "d2i"}, "I")

=============================================================================
