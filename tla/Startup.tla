------------------------------ MODULE Startup ------------------------------
(***************************************************************************)
(* The program around the filesystem: main() of src/main.c with its        *)
(* options, the connection of src/ssh.c, the host dialogue of              *)
(* src/ssh_cli.c, the construction of the endpoint layer by layer          *)
(* (SFTFS_CACHED_INIT, sftfs_cached_construct(), sftfs_sftp_construct()),  *)
(* and the way back, after a failure or at unmounting.                     *)
(*                                                                         *)
(* A target is a sequence of words and separators, what the user types a   *)
(* sequence of characters.  libssh, libfuse and the server are external:   *)
(* their calls succeed or fail.  Variables that are not read any more are  *)
(* cleared, so that what was typed does not multiply the states behind it. *)
(***************************************************************************)
EXTENDS StrOps, FiniteSets

CONSTANTS
    ArgVectors,     \* command lines
    Typed           \* what stdin may hold for the dialogue

\* An argument as fuse_opt_parse() gives it to process_ssh_options().
Arg ==
    [key : {"port"}, num : Int, tail : BOOLEAN] \cup [key : {"nonopt"}, text : Seq(STRING)]
    \cup [key : {"help", "other"}]

\* struct sftfs_options: strings or null pointers, and a port or the error.
CStr == Seq(STRING) \cup {None}
PortRange == {n \in Int : -1 <= n /\ n <= 65535}
sftfs_options ==
    [target_buffer : CStr, user : CStr, host : CStr, path : CStr, port : PortRange,
     help : BOOLEAN]

\* Why main() returns.
Reason == {"usage", "crash", "help", "connect", "refused", "construct", "fuse", "done"}

ASSUME StartAssumption ==
    /\ \A v \in ArgVectors : v \in Seq(Arg)
    /\ \A t \in Typed : t \in Seq(STRING)
    /\ None \notin Seq(STRING) \cup sftfs_options \cup Reason

VARIABLES
    stage,      \* where main() is
    argv,       \* arguments fuse_opt_parse() has not looked at yet
    given,      \* history: all arguments
    opts,       \* struct sftfs_options
    stdin,      \* what is left to read
    typed,      \* history: all that was there to read
    strayed,    \* history: get_line() met a newline behind the buffer
    build,      \* "cached", or "plain" without SFTFS_CACHED
    held,       \* what has been allocated and not freed
    status      \* why main() returned, None before

startVars == <<stage, argv, given, opts, stdin, typed, strayed, build, held, status>>
dialogue == <<stdin, typed, strayed>>
arguments == <<argv, given, opts>>

NoOpts == [target_buffer |-> None, user |-> None, host |-> None, path |-> None,
           port |-> 22, help |-> FALSE]

Position(s, x) == SelectInSeq(s, LAMBDA y : y = x)

-----------------------------------------------------------------------------
(* Plausible mistakes, used to show that the properties notice them. *)

\* A later argument replaces the target.
Mut_NoTargetYet(o) == TRUE

\* The rest of a long line is not skipped.
Mut_GetLine(input, stray) ==
    LET nl == Position(input, "nl")
        got == SubSeq(input, 1, CHOOSE n \in 1 .. 3 : n = 3 \/ n \in {nl, Len(input)})
    IN  [response |-> IF "nl" \in Range(got) THEN <<>> ELSE got,
         rest |-> SubSeq(input, Len(got) + 1, Len(input))]

-----------------------------------------------------------------------------
(* Options *)

\* parse_target().  Without an "@" the null pointer plus one is searched.
ParseTarget(o, target) ==
    LET at == Position(target, "@")
        rest == SubSeq(target, at + 1, Len(target))
        colon == Position(rest, ":")
    IN  IF at = 0 THEN None
        ELSE [o EXCEPT !.user = SubSeq(target, 1, at - 1),
                       !.host = IF colon = 0 THEN rest ELSE SubSeq(rest, 1, colon - 1),
                       !.path = IF colon = 0 THEN @ ELSE SubSeq(rest, colon + 1, Len(rest))]

\* parse_port(): strtol() found num, and something behind it if tail.
ParsePort(arg) == IF arg.tail \/ arg.num < 0 \/ arg.num > 65535 THEN -1 ELSE arg.num

\* No target was seen before.
NoTargetYet(o) == o.target_buffer = None

Exit(reason) == stage' = "exit" /\ status' = reason

\* process_ssh_options() for one argument.
ProcessArg ==
    /\ stage = "args" /\ argv # <<>>
    /\ argv' = Tail(argv)
    /\ LET arg == Head(argv)
       IN  \/ /\ arg.key = "port"
              /\ opts' = [opts EXCEPT !.port = ParsePort(arg)]
              /\ IF ParsePort(arg) < 0 THEN Exit("usage") ELSE UNCHANGED <<stage, status>>
           \/ /\ arg.key = "nonopt" /\ NoTargetYet(opts)
              /\ LET o == [opts EXCEPT !.target_buffer = arg.text]
                     parsed == ParseTarget(o, arg.text)
                 IN  IF parsed = None THEN opts' = o /\ Exit("crash")
                     ELSE opts' = parsed /\ UNCHANGED <<stage, status>>
           \/ /\ arg.key = "help"
              /\ opts' = [opts EXCEPT !.help = TRUE]
              /\ UNCHANGED <<stage, status>>
           \/ /\ arg.key = "other" \/ (arg.key = "nonopt" /\ ~ NoTargetYet(opts))
              /\ UNCHANGED <<opts, stage, status>>
    /\ UNCHANGED <<given, dialogue, build, held>>

\* main() after fuse_opt_parse().
CheckOptions ==
    /\ stage = "args" /\ argv = <<>>
    /\ IF opts.help THEN Exit("help")
       ELSE IF opts.host = None \/ opts.path = None THEN Exit("usage")
       ELSE stage' = "connect" /\ UNCHANGED status
    /\ UNCHANGED <<arguments, dialogue, build, held>>

-----------------------------------------------------------------------------
(* The SSH session *)

\* sftfs_ssh_connect(): when it fails the session, if there is one, stays.
Connect ==
    /\ stage = "connect"
    /\ \/ held' = {"session"} /\ stage' = "verify" /\ UNCHANGED status
       \/ held' \in SUBSET {"session"} /\ Exit("connect")
    /\ argv' = <<>> /\ given' = <<>> /\ opts' = NoOpts
    /\ UNCHANGED <<dialogue, build>>

\* ssh_session_is_known_server(): anything but SSH_KNOWN_HOSTS_UNKNOWN, which
\* is 0, goes on.
AskServer ==
    /\ stage = "verify"
    /\ \/ stage' = "auth" /\ UNCHANGED <<stdin, typed>>
       \/ stage' = "dialogue" /\ stdin' \in Typed /\ typed' = stdin'
    /\ UNCHANGED <<arguments, strayed, build, held, status>>

\* get_line() with room for three characters: a line whose end is among them
\* becomes the empty string, the rest of a longer line is skipped.  What lies
\* behind the string read, up to one byte behind the buffer, is looked at as
\* well and can be a newline (stray).
GetLine(input, stray) ==
    LET nl == Position(input, "nl")
        end == IF nl = 0 THEN Len(input) ELSE nl
        got == SubSeq(input, 1, IF end < 3 THEN end ELSE 3)
        behind == SubSeq(input, Len(got) + 1, Len(input))
    IN  IF "nl" \in Range(got) \/ stray
        THEN [response |-> <<>>, rest |-> behind]
        ELSE [response |-> got, rest |-> SubSeq(input, end + 1, Len(input))]

\* strncmp() with "yes" and "no".
IsYes(response) == response = <<"y", "e", "s">>
IsNo(response) == Len(response) >= 2 /\ SubSeq(response, 1, 2) = <<"n", "o">>

\* One turn of the loop of handle_host_verification().
Dialogue ==
    /\ stage = "dialogue"
    /\ IF stdin = <<>> THEN stage' = "refused" /\ UNCHANGED <<stdin, strayed>>
       ELSE \E stray \in BOOLEAN :
            LET line == GetLine(stdin, stray)
            IN  /\ stdin' = line.rest
                /\ strayed' = (strayed \/ stray)
                /\ stage' = IF IsYes(line.response) THEN "update"
                            ELSE IF IsNo(line.response) THEN "refused" ELSE stage
    /\ UNCHANGED <<arguments, typed, build, held, status>>

Forgotten == stdin' = <<>> /\ typed' = <<>> /\ strayed' = FALSE

\* ssh_session_update_known_hosts().
UpdateKnownHosts ==
    /\ stage = "update"
    /\ stage' \in {"auth", "refused"}
    /\ Forgotten
    /\ UNCHANGED <<arguments, build, held, status>>

\* handle_connection(): the session is closed when one of the two failed.
Disconnect ==
    /\ stage = "refused"
    /\ held' = held \ {"session"}
    /\ Exit("refused")
    /\ Forgotten
    /\ UNCHANGED <<arguments, build>>

\* handle_host_authorization() has returned; the build matters from here on.
Authorized(ok) ==
    /\ stage = "auth"
    /\ stage' = IF ok THEN "construct" ELSE "refused"
    /\ build' \in IF ok THEN {"cached", "plain"} ELSE {build}
    /\ UNCHANGED <<arguments, dialogue, held, status>>

-----------------------------------------------------------------------------
(* The endpoint *)

Sftp == <<"sftp", "work_dir", "curr_abs_path">>

\* What is allocated on the session, in order; the first is the memory that
\* the rest is in.
Layers ==
    IF build = "cached" THEN <<"cached", "attr", "dir", "symlink", "map">> \o Sftp
    ELSE <<"handle">> \o Sftp

\* free() of the memory comes before the destructors.
Mut_NextFreed == Layers[1]

\* The last layer that is held.
NextFreed == Layers[Cardinality(held \ {"session"})]

\* sftfs_cached_init(), sftfs_cached_construct(), sftfs_sftp_init() and
\* sftfs_sftp_construct(): the next layer, or its failure.
Acquire ==
    LET n == Cardinality(held)
    IN  /\ stage = "construct"
        /\ \/ /\ held' = held \cup {Layers[n]}
              /\ stage' = IF n = Len(Layers) THEN "mounting" ELSE stage
           \/ held' = held /\ stage' = "unwind"
        /\ UNCHANGED <<arguments, dialogue, build, status>>

\* The labels behind a failure, SFTFS_CACHED_INIT's deinit, deinit_sftfs(): the
\* last layer goes, then the session.  sftfs_sftp_init() does not free its
\* memory when construction fails.
Release ==
    /\ stage \in {"unwind", "destroy"}
    /\ IF held \subseteq {"session"} \/ (stage = "unwind" /\ held \subseteq {"session", "handle"})
       THEN held' = held \ {"session"}
            /\ Exit(IF stage = "unwind" THEN "construct" ELSE "done")
       ELSE held' = held \ {NextFreed} /\ UNCHANGED <<stage, status>>
    /\ UNCHANGED <<arguments, dialogue, build>>

\* fuse_main(): when mounting fails, destroy() is not called.
FuseMain ==
    /\ stage = "mounting"
    /\ \/ stage' = "run" /\ UNCHANGED status
       \/ Exit("fuse")
    /\ UNCHANGED <<arguments, dialogue, build, held>>

\* The filesystem is unmounted, libfuse calls destroy().
Unmount ==
    /\ stage = "run" /\ stage' = "destroy"
    /\ UNCHANGED <<arguments, dialogue, build, held, status>>

-----------------------------------------------------------------------------

StartInit ==
    /\ stage = "args"
    /\ argv \in ArgVectors /\ given = argv
    /\ opts = NoOpts
    /\ stdin = <<>> /\ typed = <<>> /\ strayed = FALSE
    /\ build = "cached"
    /\ held = {}
    /\ status = None

-----------------------------------------------------------------------------
(* Properties *)

\* Type invariant.
StartTypeOK ==
    /\ stage \in {"args", "connect", "verify", "dialogue", "update", "refused", "auth",
                  "construct", "unwind", "mounting", "run", "destroy", "exit"}
    /\ opts \in sftfs_options
    /\ held \subseteq Range(Layers) \cup {"session"}
    /\ (stage = "exit") = (status # None)

\* The indices of the non-option arguments, and of the ports.
Given(key) == {i \in DOMAIN given : given[i].key = key}

Earliest(S) == CHOOSE i \in S : \A j \in S : i <= j
Latest(S) == CHOOSE i \in S : \A j \in S : i >= j

\* The separators at a and c divide t.
Divides(t, a, c) ==
    /\ a < c /\ t[a] = "@" /\ t[c] = ":"
    /\ "@" \notin Range(SubSeq(t, 1, a - 1))
    /\ ":" \notin Range(SubSeq(t, a + 1, c - 1))

\* The program connects only as the command line says, in whatever order its
\* arguments come: to the parts of the first argument that is no option, and
\* with the last port given; and it dies in parse_target() only when that
\* argument names no user.
ConnectsAsAsked ==
    LET target == given[Earliest(Given("nonopt"))].text
    IN  /\ stage = "connect" =>
            /\ \E a, c \in DOMAIN target :
                /\ Divides(target, a, c)
                /\ opts.user = SubSeq(target, 1, a - 1)
                /\ opts.host = SubSeq(target, a + 1, c - 1)
                /\ opts.path = SubSeq(target, c + 1, Len(target))
            /\ opts.port = IF Given("port") = {} THEN 22 ELSE given[Latest(Given("port"))].num
        /\ status = "crash" => "@" \notin Range(target)

\* The first characters of the line that begins at i.
Begins(i, word) ==
    /\ i = 1 \/ typed[i - 1] = "nl"
    /\ IsPrefix(word, SubSeq(typed, i, Len(typed)))

\* The line at i is understood as a refusal: "no" alone, with its newline, is not.
Refusal(i) == Begins(i, <<"n", "o">>) /\ (i + 1 = Len(typed) \/ typed[i + 2] # "nl")

\* What the loop makes of several lines of any length: long lines are skipped to
\* their end and nothing is taken from the middle of one, unless get_line() met
\* a newline behind its buffer.  The host is accepted only by a line that begins
\* with "yes", ahead of every refusal that get_line() can recognise; it is
\* refused only when no line begins with "yes", or one with "no" comes first.
AnswerDecides ==
    LET Yes(i) == Begins(i, <<"y", "e", "s">>)
        lines == 1 .. Len(typed)
    IN  ~ strayed =>
            /\ stage = "update" => \E i \in lines : Yes(i) /\ \A j \in 1 .. i - 1 : ~ Refusal(j)
            /\ stage = "refused" /\ typed # <<>> =>
                \A i \in lines : Yes(i) => \E j \in 1 .. i - 1 : Begins(j, <<"n", "o">>)

\* What must still be there when r is: the session that an SFTP session runs
\* over, and the memory that points to everything else.
Needs(r) ==
    (IF r = "sftp" THEN {"session"} ELSE {})
    \cup (IF r \in {"session", Layers[1]} THEN {} ELSE {Layers[1]})

\* Nothing is freed before what depends on it, and everything is freed on every
\* way out of main(), with three exceptions the code has: a connection that
\* fails keeps the session, a build without the cache the memory of an endpoint
\* that could not be constructed, and a failing fuse_main() everything.
AllReleased ==
    /\ \A r \in held : Needs(r) \subseteq held
    /\ stage = "exit" =>
        \/ held = {}
        \/ status = "connect" /\ held = {"session"}
        \/ status = "construct" /\ build = "plain" /\ held = {"handle"}
        \/ status = "fuse"

\* A target of the form the usage message gives, [user@]host:[directory], is
\* taken apart into its parts.
UsageUnderstood ==
    opts.target_buffer # None =>
        LET t == opts.target_buffer
            Word(i, j) == i <= j /\ Range(SubSeq(t, i, j)) \cap {"@", ":"} = {}
        IN  \A a \in 0 .. Len(t), c \in DOMAIN t :
                (/\ a > 0 => t[a] = "@" /\ Word(1, a - 1)
                 /\ t[c] = ":" /\ Word(a + 1, c - 1))
                => /\ opts.user = IF a = 0 THEN None ELSE SubSeq(t, 1, a - 1)
                   /\ opts.host = SubSeq(t, a + 1, c - 1)
                   /\ opts.path = SubSeq(t, c + 1, Len(t))

\* The dialogue asks for "yes" or "no": a line that reads "no" ends it, the
\* question is not asked again and no later line accepts the host.
NoRefuses ==
    stage \in {"dialogue", "update"} =>
        \A i \in 1 .. Len(typed) - Len(stdin) - 2 : ~ Begins(i, <<"n", "o", "nl">>)
=============================================================================
