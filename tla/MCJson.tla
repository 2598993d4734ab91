------------------------------- MODULE MCJson -------------------------------
(* A small instance of Json for TLC. *)
EXTENDS Json

Number == [kind |-> "scalar"]
NaN == [kind |-> "nonfinite"]
Object(ps) == [kind |-> "object", parts |-> ps]
Array(ps) == [kind |-> "array", parts |-> ps]
Part(k, v) == [key |-> k, val |-> v]

\* A user, a list with a hole and NaN, and a date in a list in an object.
Date == [kind |-> "custom", to |-> Number]
User == Object(<<Part("name", Number), Part("password", Number), Part("f", Undefined)>>)
List == Array(<<Part("0", Undefined), Part("1", NaN)>>)
Nested == Object(<<Part("name", Array(<<Part("0", Date), Part("1", Object(<<>>))>>)),
                   Part("password", User)>>)
MCValues == {User, List, Nested, Undefined}
MCSelected == <<"password", "name", "none">>
=============================================================================
