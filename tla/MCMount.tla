------------------------------ MODULE MCMount ------------------------------
(* Instance of Mount for TLC. *)
EXTENDS Mount

CONSTANTS o1, o2, h1

\* Command lines: targets with and without user, directory and separators in
\* unusual places, ports on both sides of their range, and every order.
Target(text) == [key |-> "nonopt", text |-> text]
Port(num, tail) == [key |-> "port", num |-> num, tail |-> tail]

Targets ==
    {Target(t) : t \in {<<"u", "@", "h", ":", "d">>, <<"u", "@", "h", ":">>,
                        <<"u", "@", "h">>, <<"@", "h", ":", "d">>,
                        <<"u", "@", "h", ":", "d", "@", "d", ":">>,
                        <<"u", ":", "@", "h", ":", "d">>,
                        <<"h", ":", "d">>, <<"h", ":", "d", "@", "d">>, <<"h">>}}
Dir == Target(<<"m", "@", "m", ":">>)
Options ==
    {Port(0, FALSE), Port(65535, FALSE), Port(65536, FALSE), Port(-1, FALSE),
     Port(7, TRUE), [key |-> "help"], [key |-> "other"]}

MCArgVectors ==
    {<<>>} \cup {<<t, Dir>> : t \in Targets} \cup {<<o, t, Dir>> : o \in Options, t \in Targets}
    \cup {<<t, o, Dir, Port(7, FALSE)>> : o \in Options, t \in Targets}

\* Lines of the dialogue, and their beginnings when the input ends there.
Lines ==
    {<<"y", "e", "s", "nl">>, <<"n", "o", "nl">>, <<"n", "o", "o", "nl">>,
     <<"y", "nl">>, <<"nl">>, <<"o", "s", "y", "y", "e", "s", "nl">>,
     <<"y", "e", "s", "n", "o", "nl">>}
MCTyped ==
    {a \o b : a \in Lines, b \in Lines}
    \cup {a \o SubSeq(b, 1, Len(b) - 1) : a \in Lines \cup {<<>>}, b \in Lines}

\* SIGINT, SIGWINCH, SIGTSTP, SIGHUP under nohup, and a signal that has a handler.
MCDefault == <<"term", "ignore", "stop", "term", "term">>
MCInherited == <<"dfl", "dfl", "dfl", "ign", "own">>

MCRelPath == {<<"/", "a">>, <<"/", "d", "/", "b">>}
MCWorkDirs == {<<"/">>, <<"/", "w">>}
=============================================================================
