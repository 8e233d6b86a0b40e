------------------------------- MODULE MCStores -------------------------------
(* Small instances of Stores: four saves of up to two chunks, where a      *)
(* manifest may list two pending generations, two calls on a host or on    *)
(* the providers at a time, and two processes of two threads that set the  *)
(* settings.                                                               *)
EXTENDS Stores, TLC

CONSTANTS c1, c2, s1, s2, p1, k1, P1, P2

MCCallers   == {c1, c2}
MCSecrets   == {s1, s2}
MCOthers    == {p1}
MCKeys      == {k1}
MCProcesses == {P1, P2}

Symmetry == Permutations(MCCallers) \cup Permutations(MCSecrets) \cup Permutations(MCProcesses)

-----------------------------------------------------------------------------
(* Settings files: one that is up to date, with scalars of an older        *)
(* version or damaged, and with lists of providers that have to be cut.    *)
MCTexts == {"en", "zh", "default", "legacy", "model", "h", "space", "slash", "a", "b", "c", "m", "n"}

N(json, n) == [json |-> json, n |-> n]

Row(id, models) == [id |-> id, models |-> models]

Default(id, model) == [id |-> id, model |-> model]

Base == [language |-> "en", size |-> N("number", 12), window |-> N("number", 0), url |-> <<"h">>,
         has |-> "list", providers |-> <<Row("a", <<"m">>)>>, default |-> Default("a", "m")]

Damaged ==
    { [Base EXCEPT !.language = Bad, !.size = N("number", -1), !.window = N("number", 5000),
                   !.url = <<"h", "space", "slash">>],
      [Base EXCEPT !.size = N("null", 0), !.window = N("true", 0), !.url = <<"h", "slash">>, !.has = "absent"],
      [Base EXCEPT !.size = N("absent", 0), !.window = N("empty", 0), !.url = <<Bad>>, !.has = "junk"] }

Lists == { <<Row("a", <<"m">>), Row("b", <<>>)>>,
           <<Row("a", <<"m">>), Row("b", <<"m", Bad, "m", "n">>), Row("c", <<"m">>)>>,
           <<Row("b", <<>>), Row("b", <<"m">>), Row(Bad, <<"m">>)>> }

Listed == {[Base EXCEPT !.providers = l, !.default = d] : l \in Lists, d \in {Default("b", "n"), Default("a", "n")}}

Files == {[is |-> k, raw |-> Base] : k \in {"missing", "array", "corrupt"}}
           \cup {[is |-> "object", raw |-> r] : r \in Damaged \cup Listed}

Changes == { [language |-> "zh"], [size |-> 30], [url |-> <<"h", "space", "slash">>], [default |-> Default("b", "m")],
             [providers |-> <<Row("b", <<>>), Row("a", <<"m">>)>>, default |-> Default("b", Bad)] }
================================================================================
