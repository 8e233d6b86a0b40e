-------------------------------- MODULE MCFiles --------------------------------
(* Small instances of Files: two tasks of one session and one of another,  *)
(* over two slots, so that the limit of a session binds (in MCTransferLive *)
(* the global one does); two uploads and a download to the same name; one  *)
(* session's clients; and a panel in /h, where d has a file and a link to  *)
(* /o, which is outside, e has a directory named like that link (renames   *)
(* put one in the place of the other), and u is a link to the root,        *)
(* through which /h has a second name.                                     *)
EXTENDS Files, TLC

CONSTANTS a1, a2, b1, sa, sb, u1, u2, w1, w2, w3, sub

MCTasks        == {a1, a2, b1}
MCSessions     == {sa, sb}
MCCallers      == {u1, u2}
MCSessionOf(t) == IF t = b1 THEN sb ELSE sa

MCUploads   == {w1, w2}
MCDownloads == {w3}

MCPanelSessions == {sa}
MCDirs          == {sub}

Symmetry == Permutations({a1, a2}) \cup Permutations(MCCallers)

-----------------------------------------------------------------------------
Folders == {<<>>, <<"h">>, <<"h", "d">>, <<"h", "e">>, <<"h", "e", "l">>, <<"o">>}
Regular == {<<"h", "d", "f">>, <<"o", "f">>}
Links   == {<<"h", "d", "l">>, <<"h", "u">>}

MCTree ==
    [p \in Folders \cup Regular \cup Links |->
       [is |-> IF p \in Folders THEN "dir" ELSE IF p \in Regular THEN "file" ELSE "link",
        to |-> IF p = <<"h", "d", "l">> THEN <<"o">> ELSE <<>>]]

MCCwd == <<"h">>

MCNames == {"h", "d", "e", "o", "f", "l", "u", "x"}

Wish(op, p, q) == [op |-> op, name |-> [abs |-> FALSE, parts |-> p], to |-> [abs |-> FALSE, parts |-> q]]

Removals == {<<"d">>, <<"e">>, <<"u", "h">>, <<"u", "o">>, <<"d", "l">>, <<"u", "h", "d">>, <<"d", "..">>,
             <<"u", "h", "d", "l">>}

MCWishes == {Wish("remove", p, <<>>) : p \in Removals}
              \cup {Wish("chdir", <<"d">>, <<>>), Wish("chdir", <<"..">>, <<>>), Wish("mkdir", <<"d", "x">>, <<>>),
                    Wish("mkdir", <<"d", "l">>, <<>>),
                    Wish("rename", <<"..", "o">>, <<"d", "x">>), Wish("rename", <<"d">>, <<"..", "x">>),
                    Wish("rename", <<"e">>, <<"..", "x">>), Wish("rename", <<"d">>, <<"e">>)}
================================================================================
