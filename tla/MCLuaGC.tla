------------------------------ MODULE MCLuaGC ------------------------------
(* Instances of LuaGC for TLC: the objects a program may have. *)
EXTENDS LuaGC

With(ks) == [o \in {0} \cup DOMAIN ks |-> IF o = 0 THEN "thread" ELSE ks[o]]

Tables      == With(<<"table", "table">>)
Ephemerons  == With(<<"ephemeron", "table">>)
WeakStrings == With(<<"weak", "string">>)
Finalizable == With(<<"finalizable">>)
Resurrected == With(<<"finalizable", "weak">>)
Shared      == With(<<"func", "func", "upval", "upval">>)
Closures    == With(<<"thread", "func", "upval">>)

MCPopulations  == {Tables, Ephemerons, WeakStrings, Resurrected, Shared, Closures}
LivePopulations == {WeakStrings, Finalizable, Closures}
GenPopulations == {Tables, WeakStrings, Finalizable, Closures}
=============================================================================
