--------------------------- MODULE PasswordPrompt ---------------------------
(***************************************************************************)
(* The password prompt (src/password_prompt.c, include/password_prompt.h)  *)
(* and the attempts handle_host_authorization() of src/ssh_cli.c makes     *)
(* with it.  The main thread goes through the steps of start(), do(), the  *)
(* critical function and stop(); a signal can be delivered between any     *)
(* two.  A delivery is one step: nothing else runs while the handler does. *)
(*                                                                         *)
(* A disposition is "dfl", "ign", "own" (a handler somebody else           *)
(* installed) or "erase", password_erasing_signal_handler().               *)
(***************************************************************************)
EXTENDS Integers

CONSTANTS
    NSIG,           \* signals are 1 .. NSIG - 1
    Safe,           \* is_safe_signal(), SIGKILL and SIGSTOP: those left alone
    Default,        \* [Signal -> {"term", "stop", "ignore"}], the default action
    Inherited,      \* [Signal -> {"dfl", "ign", "own"}], dispositions at start
    Attempts,       \* PASSWORD_ATTEMPTS
    NoPrompt,       \* the null pointer
    PromptFaults    \* which calls may fail

Signal == 1 .. NSIG - 1

Disposition == {"dfl", "ign", "own", "erase"}

\* struct sftfs_password_prompt_s; "seen" is history, the signals its handler met.
Prompt == [id : 1 .. Attempts, password : {"none", "empty", "typed"},
           is_dumpable : -1 .. 2, handlers : [Signal -> Disposition],
           seen : SUBSET Signal]

ASSUME PromptAssumption ==
    /\ NSIG \in Nat \ {0} /\ Attempts \in Nat \ {0}
    /\ Safe \subseteq Signal
    /\ Default \in [Signal -> {"term", "stop", "ignore"}]
    /\ Inherited \in [Signal -> {"dfl", "ign", "own"}]
    /\ NoPrompt \notin 1 .. Attempts /\ NoPrompt \notin Prompt

VARIABLES
    main,       \* the next step of the main thread; "idle" outside of the prompt
    sig, upto,  \* the loop over the signals, and where it stops
    attempt,    \* i of handle_host_authorization(), counted from 1
    rc,         \* what the attempt will return
    prompt,     \* the prompt, its password buffer and what is saved in it
    locked,     \* the password's buffer is locked into memory
    ongoing_prompt, \* NoPrompt or the attempt whose prompt it points to
    disp,       \* [Signal -> disposition]
    dumpable,   \* PR_GET_DUMPABLE
    handling,   \* SFTFS_PASSWORD_PROMPT_DISABLE_SIGNAL_HANDLING is not set
    proc,       \* [st, by]: "running", "stopped" or "killed", and by which signal
    lasting     \* history: failures whose effect outlives the prompt

loop == <<sig, upto>>
auth == <<attempt, rc, handling>>
memory == <<prompt, locked, ongoing_prompt>>
process == <<disp, dumpable, proc>>
promptVars == <<main, loop, auth, memory, process, lasting>>

Running == [st |-> "running", by |-> 0]

-----------------------------------------------------------------------------
(* Plausible mistakes, used to show that the properties notice them. *)

\* The loops begin with the second signal.
Mut_Skipped(s) == s \in Safe \/ s = 1

\* A failed cover_unsafe_signals() leaves what it covered.
Mut_CoverFailed ==
    /\ main' = "undump"
    /\ ongoing_prompt' = NoPrompt
    /\ UNCHANGED <<sig, upto>>

\* The signal before the failed one is forgotten.
Mut_CoverFailedShort ==
    /\ main' = "uncover"
    /\ sig' = 1 /\ upto' = sig - (IF sig > 1 THEN 1 ELSE 0)
    /\ UNCHANGED ongoing_prompt

-----------------------------------------------------------------------------
(* sftfs_password_prompt_start() *)

May(fault) == fault \in PromptFaults

\* A step of the main thread from one place to another.
Step(from, to) == proc.st = "running" /\ main = from /\ main' = to

\* try_authorize_host_with_password(): the next attempt.
Attempt(n) ==
    /\ main' = "start"
    /\ attempt' = n
    /\ rc' = "failed"

\* The handle; calloc() leaves SIG_DFL in all of "handlers".
AllocPrompt ==
    /\ \/ /\ Step("start", "password")
          /\ prompt' = [id |-> attempt, password |-> "none", is_dumpable |-> 0,
                        handlers |-> [s \in Signal |-> "dfl"], seen |-> {}]
       \/ May("calloc") /\ Step("start", "over") /\ UNCHANGED prompt
    /\ UNCHANGED <<loop, auth, process, ongoing_prompt, lasting, locked>>

\* The password's buffer, and mlock().
AllocPassword ==
    /\ \/ Step("password", "lock") /\ prompt' = [prompt EXCEPT !.password = "empty"]
       \/ May("calloc") /\ Step("password", "free_prompt") /\ UNCHANGED prompt
    /\ UNCHANGED <<loop, auth, process, ongoing_prompt, lasting, locked>>

Lock ==
    /\ \/ Step("lock", "nodump") /\ locked' = TRUE
       \/ May("mlock") /\ Step("lock", "free_password") /\ UNCHANGED locked
    /\ UNCHANGED <<loop, auth, process, ongoing_prompt, lasting, prompt>>

\* set_nodumpable(): the flag is cleared also when its value could not be
\* read, and a failure to clear it is only reported.
SetNodumpable ==
    /\ \E was \in {dumpable} \cup (IF May("getdump") THEN {-1} ELSE {}) :
        /\ Step("nodump", IF was = -1 THEN "unlock"
                          ELSE IF handling THEN "cover_begin" ELSE "ask")
        /\ prompt' = [prompt EXCEPT !.is_dumpable = was]
        /\ lasting' = IF was = -1 THEN lasting \cup {"dumpable"} ELSE lasting
    /\ \/ dumpable' = 0
       \/ May("setdump") /\ UNCHANGED dumpable
    /\ UNCHANGED <<loop, auth, ongoing_prompt, disp, proc, locked>>

\* cover_unsafe_signals() up to its loop.
CoverBegin ==
    /\ \/ Step("cover_begin", "cover") /\ sig' = 1 /\ ongoing_prompt' = attempt
       \/ May("sigaction") /\ Step("cover_begin", "undump") /\ UNCHANGED <<sig, ongoing_prompt>>
    /\ UNCHANGED <<auth, process, upto, prompt, lasting, locked>>

\* The signals both loops pass over.
Skipped(s) == s \in Safe

\* A failed sigaction() in cover_unsafe_signals(): what was covered so far is
\* uncovered.
CoverFailed ==
    /\ main' = "uncover"
    /\ sig' = 1 /\ upto' = sig
    /\ UNCHANGED ongoing_prompt

\* One turn of the loop of cover_unsafe_signals().
Cover ==
    /\ proc.st = "running" /\ main = "cover"
    /\ \/ /\ sig = NSIG
          /\ main' = "ask" /\ sig' = 1
          /\ UNCHANGED <<upto, prompt, ongoing_prompt, disp>>
       \/ /\ sig < NSIG
          /\ prompt' = IF Skipped(sig) THEN prompt
                       ELSE [prompt EXCEPT !.handlers[sig] = disp[sig]]
          /\ disp' = IF Skipped(sig) THEN disp ELSE [disp EXCEPT ![sig] = "erase"]
          /\ sig' = sig + 1
          /\ UNCHANGED <<main, upto, ongoing_prompt>>
       \/ /\ sig < NSIG /\ ~ Skipped(sig) /\ May("sigaction")
          /\ CoverFailed
          /\ UNCHANGED <<prompt, disp>>
    /\ UNCHANGED <<auth, dumpable, proc, lasting, locked>>

-----------------------------------------------------------------------------
(* sftfs_password_prompt_wrap_critical_call() and _stop() *)

\* ssh_getpass() of sftfs_password_prompt_do(): characters arrive ...
Type ==
    /\ Step("ask", "ask")
    /\ prompt' = [prompt EXCEPT !.password = "typed"]
    /\ UNCHANGED <<loop, auth, process, ongoing_prompt, lasting, locked>>

\* ... until the line is complete, or reading fails.
Asked ==
    /\ Step("ask", "use") \/ Step("ask", "wipe")
    /\ UNCHANGED <<loop, auth, memory, process, lasting>>

\* password_prompt_cb(): accepted, denied, or an error.
Use ==
    /\ Step("use", "wipe")
    /\ rc' \in {"ok", "EAGAIN", "EPERM"}
    /\ UNCHANGED <<loop, memory, process, attempt, handling, lasting>>

\* sftfs_password_prompt_stop() erases the password first.
Wipe ==
    /\ Step("wipe", IF handling THEN "uncover" ELSE "undump")
    /\ prompt' = [prompt EXCEPT !.password = "empty"]
    /\ sig' = 1 /\ upto' = NSIG
    /\ UNCHANGED <<auth, process, ongoing_prompt, lasting, locked>>

\* One turn of the loop of uncover_unsafe_signals(); its failure ends the loop
\* and nothing else.
Uncover ==
    /\ proc.st = "running" /\ main = "uncover"
    /\ \/ /\ sig < upto
          /\ disp' = IF Skipped(sig) THEN disp
                     ELSE [disp EXCEPT ![sig] = prompt.handlers[sig]]
          /\ prompt' = IF Skipped(sig) THEN prompt
                       ELSE [prompt EXCEPT !.handlers[sig] = "dfl"]
          /\ sig' = sig + 1
          /\ UNCHANGED <<main, upto, ongoing_prompt, lasting>>
       \/ /\ \/ sig = upto /\ UNCHANGED lasting
             \/ /\ sig < upto /\ ~ Skipped(sig) /\ May("sigaction")
                /\ lasting' = lasting \cup {"covered"}
          /\ ongoing_prompt' = NoPrompt
          /\ main' = "undump" /\ sig' = 1 /\ upto' = 1
          /\ UNCHANGED <<prompt, disp>>
    /\ UNCHANGED <<auth, dumpable, proc, locked>>

\* reset_nodumpable().  The kernel refuses to set 2, "readable by root only".
ResetNodumpable ==
    /\ Step("undump", "unlock")
    /\ \/ /\ prompt.is_dumpable # 2
          /\ dumpable' = prompt.is_dumpable /\ UNCHANGED lasting
       \/ /\ prompt.is_dumpable = 2 \/ May("setdump")
          /\ lasting' = lasting \cup {"dumpable"} /\ UNCHANGED dumpable
    /\ UNCHANGED <<loop, auth, memory, disp, proc>>

Unlock ==
    /\ Step("unlock", "free_password")
    /\ \/ locked' = FALSE /\ UNCHANGED lasting
       \/ May("munlock") /\ lasting' = lasting \cup {"locked"} /\ UNCHANGED locked
    /\ UNCHANGED <<loop, auth, process, ongoing_prompt, prompt>>

FreePassword ==
    /\ Step("free_password", "free_prompt")
    /\ prompt' = [prompt EXCEPT !.password = IF @ = "typed" THEN "leaked" ELSE "none"]
    /\ UNCHANGED <<loop, auth, process, ongoing_prompt, lasting, locked>>

FreePrompt ==
    /\ Step("free_prompt", "over")
    /\ prompt' = NoPrompt
    /\ UNCHANGED <<loop, auth, process, ongoing_prompt, lasting, locked>>

\* handle_host_authorization(): a denied password is asked for again.
NextAttempt ==
    /\ proc.st = "running" /\ main = "over"
    /\ rc = "EAGAIN" /\ attempt < Attempts
    /\ Attempt(attempt + 1)
    /\ UNCHANGED <<loop, memory, process, handling, lasting>>

\* It returns; authorised says what.
AuthorizationOver(authorised) ==
    /\ proc.st = "running" /\ main = "over"
    /\ authorised = (rc = "ok")
    /\ rc = "EAGAIN" => attempt = Attempts

-----------------------------------------------------------------------------
(* Signals *)

\* What the default action does to the process.
Defaulted(s) ==
    proc' = CASE Default[s] = "term" -> [st |-> "killed", by |-> s]
              [] Default[s] = "stop" -> [st |-> "stopped", by |-> s]
              [] OTHER -> proc

\* password_erasing_signal_handler(s).  Without a prompt it raises SIGKILL; a
\* handler saved as its own predecessor calls itself until the stack is full.
ErasingHandler(s) ==
    IF ongoing_prompt = NoPrompt
    THEN proc' = [st |-> "killed", by |-> s] /\ UNCHANGED <<prompt, disp>>
    ELSE LET saved == prompt.handlers[s]
         IN  /\ prompt' = [prompt EXCEPT !.password = IF @ = "typed" THEN "empty" ELSE @,
                                         !.seen = @ \cup {s}]
             /\ CASE saved = "own" -> UNCHANGED <<proc, disp>>
                  [] saved = "erase" ->
                        proc' = [st |-> "killed", by |-> s] /\ UNCHANGED disp
                  [] saved = "ign" ->
                        disp' = [disp EXCEPT ![s] = saved] /\ UNCHANGED proc
                  [] saved = "dfl" ->
                        disp' = [disp EXCEPT ![s] = saved] /\ Defaulted(s)

\* The signal s is delivered.
Deliver(s) ==
    /\ proc.st = "running" /\ main # "idle"
    /\ CASE disp[s] = "erase" -> ErasingHandler(s)
         [] disp[s] = "dfl" -> Defaulted(s) /\ UNCHANGED <<prompt, disp>>
         [] OTHER -> UNCHANGED <<proc, prompt, disp>>
    /\ UNCHANGED <<main, loop, auth, ongoing_prompt, dumpable, lasting, locked>>

\* A stopped process is continued.
Continue ==
    /\ proc.st = "stopped"
    /\ proc' = Running
    /\ UNCHANGED <<main, loop, auth, memory, disp, dumpable, lasting>>

-----------------------------------------------------------------------------

PromptInit ==
    /\ main = "idle" /\ sig = 1 /\ upto = 1 /\ attempt = 0 /\ rc = "failed"
    /\ prompt = NoPrompt /\ locked = FALSE /\ ongoing_prompt = NoPrompt
    /\ disp = Inherited
    /\ dumpable \in {1, 2}
    /\ handling \in BOOLEAN
    /\ proc = Running
    /\ lasting = {}

\* Nothing of it is looked at any more.
PromptForgotten ==
    /\ main' = "idle" /\ sig' = 1 /\ upto' = 1 /\ attempt' = 0 /\ rc' = "failed"
    /\ prompt' = NoPrompt /\ locked' = FALSE /\ ongoing_prompt' = NoPrompt
    /\ disp' = Inherited /\ dumpable' = 1 /\ proc' = Running
    /\ handling' = TRUE /\ lasting' = {}

\* handle_host_authorization() is called.
AuthorizationBegin ==
    /\ proc.st = "running" /\ main = "idle"
    /\ Attempt(1)
    /\ UNCHANGED <<loop, memory, process, handling, lasting>>

PromptNext ==
    \/ AllocPrompt \/ AllocPassword \/ Lock \/ SetNodumpable \/ CoverBegin \/ Cover
    \/ Type \/ Asked \/ Use \/ Wipe
    \/ Uncover \/ ResetNodumpable \/ Unlock \/ FreePassword \/ FreePrompt
    \/ NextAttempt
    \/ \E s \in Signal : Deliver(s)
    \/ Continue

-----------------------------------------------------------------------------
(* Properties *)

Holds(password) == prompt # NoPrompt /\ prompt.password = password

\* Type invariant.
PromptTypeOK ==
    /\ sig \in 1 .. NSIG /\ upto \in 1 .. NSIG /\ attempt \in 0 .. Attempts
    /\ rc \in {"ok", "failed", "EAGAIN", "EPERM"}
    /\ disp \in [Signal -> Disposition]
    /\ prompt \in Prompt \cup {NoPrompt}
    /\ ongoing_prompt \in (1 .. Attempts) \cup {NoPrompt}
    /\ locked \in BOOLEAN /\ handling \in BOOLEAN
    /\ dumpable \in 0 .. 2
    /\ proc \in [st : {"running", "stopped", "killed"}, by : 0 .. NSIG - 1]
    /\ lasting \subseteq {"dumpable", "covered", "locked"}

\* No password is in memory when a signal that is not one of the safe ones ends
\* or stops the process, wherever in the prompt it arrives, as long as the
\* prompt handles signals; only a stop signal that was handled in the same
\* prompt before finds its default action restored.  And no buffer is freed
\* with a password in it.
ErasedInTime ==
    /\ ~ Holds("leaked")
    /\ (handling /\ proc.by \notin Safe \cup {0} /\ Holds("typed")) =>
        proc.st = "stopped" /\ proc.by \in prompt.seen

\* The erasing handler always finds the prompt it belongs to:
\* ongoing_prompt never outlives it, and while a signal is covered it is set,
\* so that the handler's "very bad" SIGKILL needs a sigaction() that failed
\* while the handlers were put back.
HandlerFindsPrompt ==
    /\ ongoing_prompt # NoPrompt => prompt # NoPrompt /\ prompt.id = ongoing_prompt
    /\ ("erase" \in {disp[s] : s \in Signal} /\ "covered" \notin lasting) =>
        ongoing_prompt # NoPrompt

\* When an attempt is over, successful or not and whatever signals came, the
\* process is as it was before: dispositions, dumpable flag and memory, except
\* for what the failed calls in "lasting" left.
PromptLeavesNoTrace ==
    main = "over" =>
        /\ prompt = NoPrompt /\ ongoing_prompt = NoPrompt
        /\ "covered" \notin lasting => disp = Inherited
        /\ "locked" \notin lasting => ~ locked
        /\ "dumpable" \notin lasting => dumpable # 0
=============================================================================
