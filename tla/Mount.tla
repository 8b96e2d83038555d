------------------------------- MODULE Mount -------------------------------
(***************************************************************************)
(* A whole session of the program: the command line, the connection and    *)
(* the dialogue (Startup), the password attempts with their signals        *)
(* (PasswordPrompt), the construction of the endpoint, and the requests of *)
(* the filesystem (SftpEndp) until it is unmounted.                        *)
(*                                                                         *)
(* The server is looked at from the moment the endpoint stands; the        *)
(* process's dispositions are not followed any longer from there on.       *)
(***************************************************************************)
EXTENDS Startup, PasswordPrompt, SftpEndp

mountVars == <<startVars, promptVars, sftpVars>>

\* The program as long as it is in Startup.
StartStep ==
    \/ ProcessArg \/ CheckOptions \/ Connect \/ AskServer \/ Dialogue
    \/ UpdateKnownHosts \/ Disconnect \/ FuseMain

\* No endpoint: nothing of struct sftfs_sftp, and no view of the server.
NoEndpoint ==
    /\ work_dir = <<>> /\ base_dir_len = 0 /\ curr_abs_path = StrCreate(<<>>)
    /\ asked = None
    /\ tree = [p \in RelPath |-> None]
    /\ data = [h \in Handle |-> <<>>]
    /\ files = [h \in Handle |-> None]
    /\ call = Idle

EndpointGone ==
    /\ work_dir' = <<>> /\ base_dir_len' = 0 /\ curr_abs_path' = StrCreate(<<>>)
    /\ asked' = None
    /\ tree' = [p \in RelPath |-> None]
    /\ data' = [h \in Handle |-> <<>>]
    /\ files' = [h \in Handle |-> None]
    /\ call' = Idle

\* handle_connection() calls handle_host_authorization() ...
BeginAuthorization ==
    /\ stage = "auth"
    /\ AuthorizationBegin
    /\ UNCHANGED <<startVars, sftpVars>>

\* ... and goes on with what it returns.
EndAuthorization ==
    /\ \E ok \in BOOLEAN : AuthorizationOver(ok) /\ Authorized(ok)
    /\ PromptForgotten
    /\ UNCHANGED sftpVars

\* init_sftfs(): the endpoint layer by layer; the last one makes the path
\* buffer, for the directory the server's canonical path names.
BuildEndpoint ==
    /\ Acquire
    /\ IF stage' = "mounting"
       THEN /\ \E w \in WorkDirs : Construct(w)
            /\ tree' \in Trees
            /\ UNCHANGED <<data, files, call>>
       ELSE UNCHANGED sftpVars
    /\ UNCHANGED promptVars

\* Unmounting waits for the call in progress; the endpoint is gone when its
\* first layer is.
TearDown ==
    /\ \/ Unmount /\ call = Idle
       \/ Release
    /\ EndpointGone
    /\ UNCHANGED promptVars

MountInit == StartInit /\ PromptInit /\ NoEndpoint

MountNext ==
    \/ proc.st = "running" /\ StartStep /\ UNCHANGED <<promptVars, sftpVars>>
    \/ BeginAuthorization
    \/ stage = "auth" /\ PromptNext /\ UNCHANGED <<startVars, sftpVars>>
    \/ EndAuthorization
    \/ BuildEndpoint
    \/ stage = "run" /\ SftpNext /\ UNCHANGED <<startVars, promptVars>>
    \/ TearDown

\* The code does not wait for anybody but the server, which answers, inside of
\* a call.
MountSpec ==
    /\ MountInit /\ [][MountNext]_mountVars
    /\ WF_mountVars(stage = "run" /\ Answered /\ UNCHANGED <<startVars, promptVars>>)

\* Type invariant.
MountTypeOK == StartTypeOK /\ PromptTypeOK /\ (stage = "run" => SftpTypeOK)
=============================================================================
