-------------------------- MODULE ConnectionProofs --------------------------
(***************************************************************************)
(* Proofs about Startup, for any command line and anything typed into the  *)
(* dialogue, and whichever call of libssh, libfuse or malloc() fails; and  *)
(* about PasswordPrompt, for any number of signals, any set of safe ones,  *)
(* any inherited dispositions, any number of attempts and any failures.    *)
(***************************************************************************)
EXTENDS Startup, PasswordPrompt, SequenceTheorems, FiniteSetTheorems, WellFoundedInduction, TLAPS

-----------------------------------------------------------------------------
(* What is held *)

\* The layers that the first n steps of construction allocate.
Got(n) == {Layers[i] : i \in 1 .. n}

\* The layers are different things, none of them the session.
LEMMA LayersDiffer ==
    ASSUME build \in {"cached", "plain"}
    PROVE  /\ Len(Layers) \in Nat /\ Len(Layers) > 1 /\ DOMAIN Layers = 1 .. Len(Layers)
           /\ \A i, j \in 1 .. Len(Layers) : Layers[i] = Layers[j] => i = j
           /\ \A i \in 1 .. Len(Layers) : Layers[i] # "session"
           /\ \A i \in 1 .. Len(Layers) : Layers[i] = "handle" <=> (build = "plain" /\ i = 1)
           /\ Layers[1] # "sftp"
<1> DEFINE S == {"cached", "attr", "dir", "symlink", "map", "handle", "sftp", "work_dir",
                 "curr_abs_path"}
<1>0. /\ Sftp \in Seq(S) /\ Len(Sftp) = 3 /\ Sftp[1] = "sftp" /\ Sftp[2] = "work_dir"
      /\ Sftp[3] = "curr_abs_path"
  BY DEF Sftp
<1>1. CASE build = "cached"
  <2> DEFINE a == <<"cached", "attr", "dir", "symlink", "map">>
  <2>1. Layers = a \o Sftp
    BY <1>1 DEF Layers
  <2>2. /\ a \in Seq(S) /\ Len(a) = 5
        /\ a[1] = "cached" /\ a[2] = "attr" /\ a[3] = "dir" /\ a[4] = "symlink" /\ a[5] = "map"
    OBVIOUS
  <2> HIDE DEF a, S
  <2>3. /\ Layers \in Seq(S) /\ Len(Layers) = Len(a) + Len(Sftp)
        /\ \A i \in 1 .. Len(a) + Len(Sftp) :
                Layers[i] = IF i <= Len(a) THEN a[i] ELSE Sftp[i - Len(a)]
    BY <1>0, <2>1, <2>2, ConcatProperties
  <2>4. /\ Len(Layers) = 8 /\ DOMAIN Layers = 1 .. 8
        /\ Layers[1] = "cached" /\ Layers[2] = "attr" /\ Layers[3] = "dir"
        /\ Layers[4] = "symlink" /\ Layers[5] = "map" /\ Layers[6] = "sftp"
        /\ Layers[7] = "work_dir" /\ Layers[8] = "curr_abs_path"
    BY <1>0, <2>2, <2>3, LenProperties
  <2>5. \A i \in 1 .. 8 : i \in {1, 2, 3, 4, 5, 6, 7, 8}
    OBVIOUS
  <2>6. /\ \A i, j \in 1 .. 8 : Layers[i] = Layers[j] => i = j
        /\ \A i \in 1 .. 8 : Layers[i] # "session" /\ Layers[i] # "handle"
    BY <2>4, <2>5
  <2> QED BY <1>1, <2>4, <2>6
<1>2. CASE build = "plain"
  <2> DEFINE a == <<"handle">>
  <2>1. Layers = a \o Sftp
    BY <1>2 DEF Layers
  <2>2. a \in Seq(S) /\ Len(a) = 1 /\ a[1] = "handle"
    OBVIOUS
  <2> HIDE DEF a, S
  <2>3. /\ Layers \in Seq(S) /\ Len(Layers) = Len(a) + Len(Sftp)
        /\ \A i \in 1 .. Len(a) + Len(Sftp) :
                Layers[i] = IF i <= Len(a) THEN a[i] ELSE Sftp[i - Len(a)]
    BY <1>0, <2>1, <2>2, ConcatProperties
  <2>4. /\ Len(Layers) = 4 /\ DOMAIN Layers = 1 .. 4 /\ Layers[1] = "handle"
        /\ Layers[2] = "sftp" /\ Layers[3] = "work_dir" /\ Layers[4] = "curr_abs_path"
    BY <1>0, <2>2, <2>3, LenProperties
  <2>5. \A i \in 1 .. 4 : i \in {1, 2, 3, 4}
    OBVIOUS
  <2>6. /\ \A i, j \in 1 .. 4 : Layers[i] = Layers[j] => i = j
        /\ \A i \in 1 .. 4 : Layers[i] # "session" /\ (Layers[i] = "handle" <=> i = 1)
    BY <2>4, <2>5
  <2> QED BY <1>2, <2>4, <2>6
<1> QED BY <1>1, <1>2

\* There are layers in either build.
LEMMA LayersSome == build \in {"cached", "plain"} => Len(Layers) \in Nat /\ Len(Layers) > 1
  BY LayersDiffer

\* Counting what is held tells which layer was the last one.
LEMMA GotCount ==
    ASSUME build \in {"cached", "plain"}, NEW n \in 0 .. Len(Layers)
    PROVE  /\ Cardinality(Got(n)) = n
           /\ Cardinality({"session"} \cup Got(n)) = n + 1
           /\ "session" \notin Got(n)
<1> DEFINE f == [i \in 1 .. n |-> Layers[i]]
<1>1. Len(Layers) \in Nat /\ n \in Nat
  BY LayersDiffer
<1>2. \A i \in 1 .. n : i \in 1 .. Len(Layers)
  BY <1>1
<1>3. f \in Bijection(1 .. n, Got(n))
  <2>1. f \in [1 .. n -> Got(n)] /\ \A t \in Got(n) : \E i \in 1 .. n : f[i] = t
    BY DEF Got
  <2>2. \A i, j \in 1 .. n : f[i] = f[j] => i = j
    BY <1>2, LayersDiffer
  <2>3. IsInjective(f)
    BY <2>1, <2>2 DEF IsInjective
  <2> QED BY <2>1, <2>3 DEF Bijection, Injection, Surjection
<1>4. IsFiniteSet(1 .. n) /\ Cardinality(1 .. n) = n
  BY <1>1, FS_Interval
<1>5. IsFiniteSet(Got(n)) /\ Cardinality(Got(n)) = n
  BY <1>3, <1>4, FS_Bijection DEF ExistsBijection
<1>6. "session" \notin Got(n)
  BY <1>2, LayersDiffer DEF Got
<1>7. Got(n) \cup {"session"} = {"session"} \cup Got(n)
  OBVIOUS
<1> QED BY <1>5, <1>6, <1>7, FS_AddElement

\* Any step of the program that is not one of the prompt or of the filesystem.
StartMoves ==
    \/ ProcessArg \/ CheckOptions \/ Connect \/ AskServer \/ Dialogue \/ UpdateKnownHosts
    \/ Disconnect \/ (\E ok \in BOOLEAN : Authorized(ok)) \/ Acquire \/ FuseMain \/ Unmount
    \/ Release

\* The stages before, during and after the session is set up.
Early == {"args", "connect"}
Connected == {"verify", "dialogue", "update", "refused", "auth"}
Layered == {"construct", "unwind", "mounting", "run", "destroy"}

\* From the construction to the destruction, what is held is the session and
\* the first layers in their order.
Stacked == \E n \in 0 .. Len(Layers) : held = {"session"} \cup Got(n)

\* Every way out, with what it leaves.
LeftBehind ==
    \/ held = {}
    \/ status = "connect" /\ held = {"session"}
    \/ status = "construct" /\ build = "plain" /\ held = {"handle"}
    \/ status = "fuse" /\ Stacked

\* What is held at every stage.
HeldInv ==
    /\ build \in {"cached", "plain"}
    /\ stage \in Early \cup Connected \cup Layered \cup {"exit"}
    /\ stage \in Early => held = {}
    /\ stage \in Connected => held = {"session"}
    /\ stage \in Layered => Stacked
    /\ stage = "construct" => \E n \in 0 .. Len(Layers) - 1 : held = {"session"} \cup Got(n)
    /\ stage = "exit" => status \in Reason /\ LeftBehind
    /\ stage # "exit" => status = None

\* Construction: the next layer is the one that is not held yet.
LEMMA AcquireHeld ==
    ASSUME HeldInv, Acquire
    PROVE  HeldInv'
<1>1. build' = build /\ build \in {"cached", "plain"} /\ stage = "construct" /\ status' = status
      /\ status = None
  BY DEF HeldInv, Acquire
<1>2. Layers' = Layers /\ \A n : Got(n)' = {Layers[i] : i \in 1 .. n}
  BY <1>1 DEF Layers, Got
<1>3. PICK n \in 0 .. Len(Layers) - 1 : held = {"session"} \cup Got(n)
  BY <1>1 DEF HeldInv
<1>4. Len(Layers) \in Nat /\ n \in Nat /\ n + 1 \in 0 .. Len(Layers) /\ n \in 0 .. Len(Layers)
  BY <1>1, LayersDiffer
<1>5. Cardinality(held) = n + 1
  BY <1>1, <1>3, <1>4, GotCount
<1>6. CASE /\ held' = held \cup {Layers[n + 1]}
           /\ stage' = IF n + 1 = Len(Layers) THEN "mounting" ELSE stage
  <2>1. 1 .. n + 1 = (1 .. n) \cup {n + 1}
    BY <1>4
  <2>2. held' = {"session"} \cup Got(n + 1)
    BY <1>3, <1>6, <2>1 DEF Got
  <2>3. held' = {"session"} \cup Got(n + 1)'
    BY <1>2, <2>2 DEF Got
  <2>4. Stacked'
    BY <1>2, <1>4, <2>3 DEF Stacked
  <2>5. stage' = "construct" => n + 1 \in 0 .. Len(Layers) - 1
    BY <1>4, <1>6
  <2>6. stage' \in {"mounting", "construct"}
    BY <1>1, <1>6
  <2> QED BY <1>1, <1>2, <2>3, <2>4, <2>5, <2>6 DEF HeldInv, Early, Connected, Layered
<1>7. CASE held' = held /\ stage' = "unwind"
  <2>1. Stacked'
    BY <1>2, <1>3, <1>4, <1>7 DEF Stacked, Got
  <2> QED BY <1>1, <1>7, <2>1 DEF HeldInv, Early, Connected, Layered
<1> QED BY <1>5, <1>6, <1>7 DEF Acquire

\* Release: the last layer that is held goes first, the session last.
LEMMA ReleaseHeld ==
    ASSUME HeldInv, Release
    PROVE  HeldInv'
<1>1. /\ build' = build /\ build \in {"cached", "plain"} /\ stage \in {"unwind", "destroy"}
      /\ status = None
  BY DEF HeldInv, Release, Layered
<1>2. Layers' = Layers /\ \A n : Got(n)' = {Layers[i] : i \in 1 .. n}
  BY <1>1 DEF Layers, Got
<1>3. PICK n \in 0 .. Len(Layers) : held = {"session"} \cup Got(n)
  BY <1>1 DEF HeldInv, Stacked, Layered
<1>4. Len(Layers) \in Nat /\ n \in Nat /\ \A i \in 1 .. n : i \in 1 .. Len(Layers)
  BY <1>1, LayersDiffer
<1>5. Cardinality(Got(n)) = n /\ "session" \notin Got(n)
  BY <1>1, <1>3, <1>4, GotCount
<1> DEFINE over == \/ held \subseteq {"session"}
                   \/ stage = "unwind" /\ held \subseteq {"session", "handle"}
<1>6. CASE over
  <2>1. /\ held' = held \ {"session"} /\ stage' = "exit"
        /\ status' = IF stage = "unwind" THEN "construct" ELSE "done"
    BY <1>6 DEF Release, Exit
  <2>2. held' = Got(n)
    BY <1>3, <1>5, <2>1
  <2>3. held' = {} \/ (stage = "unwind" /\ held' = {"handle"} /\ build = "plain")
    <3>1. CASE held \subseteq {"session"}
      BY <2>1, <3>1
    <3>2. CASE held' # {} /\ stage = "unwind" /\ held \subseteq {"session", "handle"}
      <4>1. held' = {"handle"}
        BY <2>1, <3>2
      <4>2. PICK i \in 1 .. n : Layers[i] = "handle"
        BY <2>2, <4>1 DEF Got
      <4>3. build = "plain"
        BY <1>1, <1>4, <4>2, LayersDiffer
      <4> QED BY <3>2, <4>1, <4>3
    <3> QED BY <1>6, <3>1, <3>2
  <2>4. LeftBehind' /\ status' \in Reason
    BY <1>1, <2>1, <2>3 DEF LeftBehind, Reason
  <2> QED BY <1>1, <2>1, <2>4 DEF HeldInv, Early, Connected, Layered
<1>7. CASE ~ over
  <2>1. held' = held \ {NextFreed} /\ stage' = stage /\ status' = status
    BY <1>7 DEF Release
  <2>2. n # 0
    <3>1. ASSUME n = 0 PROVE held = {"session"}
      <4>1. 1 .. n = {}
        BY <3>1
      <4> QED BY <1>3, <4>1 DEF Got
    <3> QED BY <1>7, <3>1
  <2>3. held \ {"session"} = Got(n)
    BY <1>3, <1>5
  <2>4. NextFreed = Layers[n]
    BY <1>5, <2>3 DEF NextFreed
  <2>5. /\ n \in 1 .. Len(Layers) /\ n - 1 \in 0 .. Len(Layers)
        /\ 1 .. n = (1 .. n - 1) \cup {n} /\ n \notin 1 .. n - 1
    BY <1>4, <2>2
  <2>6. \A i \in 1 .. n - 1 : Layers[i] # Layers[n] /\ Layers[n] # "session"
    <3>1. \A i \in 1 .. n - 1 : i \in 1 .. Len(Layers) /\ i # n
      BY <1>4, <2>5
    <3> QED BY <1>1, <2>5, <3>1, LayersDiffer
  <2>7. Layers[n] # "session"
    BY <1>1, <2>5, LayersDiffer
  <2>8. Got(n) \ {Layers[n]} = Got(n - 1)
    BY <2>5, <2>6 DEF Got
  <2>9. held' = {"session"} \cup Got(n - 1)
    BY <1>3, <2>1, <2>4, <2>7, <2>8
  <2>10. Stacked'
    BY <1>2, <2>5, <2>9 DEF Stacked, Got
  <2> QED BY <1>1, <2>1, <2>10 DEF HeldInv, Early, Connected, Layered
<1> QED BY <1>6, <1>7

\* Every step keeps the invariant.
LEMMA HeldStep ==
    ASSUME HeldInv, StartMoves
    PROVE  HeldInv'
<1> USE DEF HeldInv, Early, Connected, Layered
<1>1. None \notin Reason
  BY StartAssumption
<1>2. CASE ProcessArg \/ CheckOptions
  <2>1. /\ stage = "args" /\ held' = held /\ build' = build
        /\ \/ stage' \in Early /\ status' = status
           \/ stage' = "exit" /\ status' \in Reason
    BY <1>2 DEF ProcessArg, CheckOptions, Exit, Reason
  <2> QED BY <2>1 DEF LeftBehind
<1>3. CASE Connect
  <2>1. /\ stage = "connect" /\ build' = build
        /\ \/ stage' = "verify" /\ status' = status /\ held' = {"session"}
           \/ stage' = "exit" /\ status' = "connect" /\ held' \in SUBSET {"session"}
    BY <1>3 DEF Connect, Exit
  <2>2. held' = {} \/ held' = {"session"}
    BY <2>1
  <2> QED BY <2>1, <2>2 DEF LeftBehind, Reason
<1>4. CASE AskServer \/ Dialogue \/ UpdateKnownHosts
  <2>1. /\ stage \in Connected /\ stage' \in Connected /\ build' = build /\ held' = held
        /\ status' = status
    BY <1>4 DEF AskServer, Dialogue, UpdateKnownHosts
  <2> QED BY <2>1
<1>5. CASE Disconnect
  <2>1. /\ stage = "refused" /\ build' = build /\ held' = held \ {"session"}
        /\ stage' = "exit" /\ status' = "refused"
    BY <1>5 DEF Disconnect, Exit
  <2> QED BY <2>1 DEF LeftBehind, Reason
<1>6. CASE \E ok \in BOOLEAN : Authorized(ok)
  <2>1. /\ stage = "auth" /\ stage' \in {"construct", "refused"} /\ held' = held
        /\ status' = status /\ build' \in {"cached", "plain"}
    BY <1>6 DEF Authorized
  <2>2. /\ 0 \in (0 .. Len(Layers))' /\ 0 \in (0 .. Len(Layers) - 1)'
    <3>1. (build \in {"cached", "plain"} => Len(Layers) \in Nat /\ Len(Layers) > 1)'
      BY LayersSome, PTL
    <3>2. Len(Layers)' \in Nat /\ Len(Layers)' > 1
      BY <2>1, <3>1
    <3> QED BY <3>2
  <2>3. held' = {"session"} \cup Got(0)'
    BY <2>1 DEF Got
  <2> QED BY <2>1, <2>2, <2>3 DEF Stacked
<1>7. CASE FuseMain \/ Unmount
  <2>1. /\ stage \in Layered /\ build' = build /\ held' = held
        /\ \/ stage' \in Layered \ {"construct"} /\ status' = status
           \/ stage' = "exit" /\ status' = "fuse"
    BY <1>7 DEF FuseMain, Unmount, Exit
  <2>2. Stacked'
    <3>1. Layers' = Layers
      BY <2>1 DEF Layers
    <3> QED BY <2>1, <3>1 DEF Stacked, Got
  <2> QED BY <2>1, <2>2 DEF LeftBehind, Reason
<1> QED BY <1>2, <1>3, <1>4, <1>5, <1>6, <1>7, AcquireHeld, ReleaseHeld DEF StartMoves

\* What is checked of the resources follows.
LEMMA HeldProperties ==
    ASSUME HeldInv
    PROVE  /\ AllReleased
           /\ held \subseteq Range(Layers) \cup {"session"}
           /\ (stage = "exit") = (status # None)
           /\ stage \in {"args", "connect", "verify", "dialogue", "update", "refused", "auth",
                         "construct", "unwind", "mounting", "run", "destroy", "exit"}
<1>0. build \in {"cached", "plain"} /\ None \notin Reason
  BY StartAssumption DEF HeldInv
<1> DEFINE Fits == /\ \A r \in held : Needs(r) \subseteq held
                   /\ held \subseteq Range(Layers) \cup {"session"}
<1>1. ASSUME Stacked PROVE Fits
  <2>1. PICK n \in 0 .. Len(Layers) : held = {"session"} \cup Got(n)
    BY <1>1 DEF Stacked
  <2>2. \A i \in 1 .. n : i \in 1 .. Len(Layers) /\ 1 \in 1 .. n
    BY <1>0, LayersDiffer
  <2>3. Got(n) \subseteq Range(Layers)
    BY <1>0, <2>2, LayersDiffer DEF Got, Range
  <2>4. \A r \in Got(n) : Layers[1] \in Got(n)
    BY <2>2 DEF Got
  <2>5. \A r \in held : Needs(r) \subseteq held
    BY <2>1, <2>4 DEF Needs
  <2> QED BY <2>1, <2>3, <2>5
<1>2. ASSUME held = {} \/ held = {"session"} PROVE Fits
  <2>1. "session" # "sftp"
    OBVIOUS
  <2> QED BY <1>2, <2>1 DEF Needs
<1>3. ASSUME build = "plain", held = {"handle"} PROVE Fits
  <2>1. Layers[1] = "handle" /\ 1 \in DOMAIN Layers
    BY <1>0, <1>3, LayersDiffer
  <2>2. Range(Layers) = {Layers[i] : i \in DOMAIN Layers}
    BY DEF Range
  <2> QED BY <1>3, <2>1, <2>2 DEF Needs
<1>4. Fits
  <2>1. \/ Stacked \/ held = {} \/ held = {"session"}
        \/ build = "plain" /\ held = {"handle"}
    BY DEF HeldInv, Early, Connected, Layered, LeftBehind
  <2> QED BY <1>1, <1>2, <1>3, <2>1
<1>5. stage = "exit" =>
        \/ held = {}
        \/ status = "connect" /\ held = {"session"}
        \/ status = "construct" /\ build = "plain" /\ held = {"handle"}
        \/ status = "fuse"
  <2>1. stage = "exit" => LeftBehind
    BY DEF HeldInv
  <2> QED BY <2>1 DEF LeftBehind
<1>6. (stage = "exit") = (status # None)
  BY <1>0 DEF HeldInv
<1>7. stage \in Early \cup Connected \cup Layered \cup {"exit"}
  BY DEF HeldInv
<1> QED BY <1>4, <1>5, <1>6, <1>7 DEF AllReleased, Early, Connected, Layered

-----------------------------------------------------------------------------
(* Options *)

\* A non-empty set of numbers has a least one, and Min gives it.
LEMMA MinIs ==
    ASSUME NEW S \in SUBSET Nat, S # {}
    PROVE  Min(S) \in S /\ \A i \in S : Min(S) <= i
<1> DEFINE R == {ss \in Nat \X Nat : ss[1] < ss[2]}
<1>1. IsWellFoundedOn(R, Nat)
  BY NatLessThanWellFounded DEF OpToRel
<1>2. PICK x \in S : \A y \in S : ~ (<<y, x>> \in R)
  BY <1>1, WFMin
<1>3. ASSUME NEW y \in S PROVE x <= y
  <2>1. y < x => <<y, x>> \in R
    OBVIOUS
  <2>2. ~ (y < x)
    BY <1>2, <2>1
  <2> QED BY <2>2
<1> QED BY <1>2, <1>3 DEF Min

\* Where strchr() finds a character.
LEMMA PositionIs ==
    ASSUME NEW s \in Seq(STRING), NEW x
    PROVE  \/ Position(s, x) = 0 /\ \A i \in 1 .. Len(s) : s[i] # x
           \/ /\ Position(s, x) \in 1 .. Len(s) /\ s[Position(s, x)] = x
              /\ \A i \in 1 .. Position(s, x) - 1 : s[i] # x
<1> DEFINE I == {i \in 1 .. Len(s) : s[i] = x}
<1>0. Len(s) \in Nat
  BY LenProperties
<1>1. Position(s, x) = IF I # {} THEN Min(I) ELSE 0
  BY DEF Position, SelectInSeq
<1>2. CASE I = {}
  BY <1>1, <1>2
<1>3. CASE I # {}
  <2>1. I \in SUBSET Nat
    BY <1>0
  <2>2. Min(I) \in I /\ \A i \in I : Min(I) <= i
    BY <1>3, <2>1, MinIs
  <2>3. Position(s, x) = Min(I)
    BY <1>1, <1>3
  <2>4. \A i \in 1 .. Min(I) - 1 : i \in 1 .. Len(s) /\ ~ (Min(I) <= i)
    BY <1>0, <2>2
  <2> QED BY <2>2, <2>3, <2>4
<1> QED BY <1>2, <1>3

\* The options o are the parts of the target t.
TakenApart(o, t) ==
    \E a \in 1 .. Len(t) :
        /\ t[a] = "@" /\ \A i \in 1 .. a - 1 : t[i] # "@"
        /\ o.user = SubSeq(t, 1, a - 1)
        /\ \/ o.path = None
           \/ \E c \in a + 1 .. Len(t) :
                /\ t[c] = ":" /\ \A i \in a + 1 .. c - 1 : t[i] # ":"
                /\ o.host = SubSeq(t, a + 1, c - 1)
                /\ o.path = SubSeq(t, c + 1, Len(t))

\* A part of a text is a text, character by character.
LEMMA PartIs ==
    ASSUME NEW t \in Seq(STRING), NEW m \in 1 .. Len(t) + 1, NEW n \in m - 1 .. Len(t)
    PROVE  /\ SubSeq(t, m, n) \in Seq(STRING) /\ Len(SubSeq(t, m, n)) = n - m + 1
           /\ \A i \in 1 .. n - m + 1 : SubSeq(t, m, n)[i] = t[m + i - 1]
<1>0. Len(t) \in Nat
  BY LenProperties
<1>1. m \in Int /\ n \in Int
  BY <1>0
<1>2. \A i \in m .. n : t[i] \in STRING
  BY <1>0, ElementOfSeq
<1>3. /\ SubSeq(t, m, n) \in Seq(STRING)
      /\ Len(SubSeq(t, m, n)) = IF m <= n THEN n - m + 1 ELSE 0
      /\ \A i \in 1 .. n - m + 1 : SubSeq(t, m, n)[i] = t[m + i - 1]
  BY <1>1, <1>2, SubSeqProperties
<1>4. (IF m <= n THEN n - m + 1 ELSE 0) = n - m + 1
  BY <1>0
<1> QED BY <1>3, <1>4

\* parse_target() finds the parts between the first "@" and the first ":" behind it.
LEMMA ParseTargetGives ==
    ASSUME NEW o \in sftfs_options, o.path = None, NEW t \in Seq(STRING)
    PROVE  LET r == ParseTarget(o, t)
           IN  \/ r = None /\ \A i \in 1 .. Len(t) : t[i] # "@"
               \/ /\ r # None /\ r \in sftfs_options /\ r.port = o.port
                  /\ r.target_buffer = o.target_buffer /\ TakenApart(r, t)
<1> DEFINE at == Position(t, "@")
           rest == SubSeq(t, at + 1, Len(t))
           colon == Position(rest, ":")
           user == SubSeq(t, 1, at - 1)
           host == IF colon = 0 THEN rest ELSE SubSeq(rest, 1, colon - 1)
           path == IF colon = 0 THEN None ELSE SubSeq(rest, colon + 1, Len(rest))
<1>0. Len(t) \in Nat
  BY LenProperties
<1>1. CASE at = 0
  BY <1>1, PositionIs DEF ParseTarget
<1>2. CASE at # 0
  <2>1. at \in 1 .. Len(t) /\ t[at] = "@" /\ \A i \in 1 .. at - 1 : t[i] # "@"
    BY <1>2, PositionIs
  <2>2. ParseTarget(o, t) = [o EXCEPT !.user = user, !.host = host, !.path = path]
    <3>1. ParseTarget(o, t) =
            [o EXCEPT !.user = user, !.host = host,
                      !.path = IF colon = 0 THEN @ ELSE SubSeq(rest, colon + 1, Len(rest))]
      BY <1>2 DEF ParseTarget
    <3>2. path = IF colon = 0 THEN o.path ELSE SubSeq(rest, colon + 1, Len(rest))
      OBVIOUS
    <3> HIDE DEF at, colon, rest, user, host, path
    <3> QED BY <3>1, <3>2 DEF sftfs_options
  <2> HIDE DEF at
  <2>3. at + 1 \in 1 .. Len(t) + 1 /\ Len(t) \in (at + 1) - 1 .. Len(t)
        /\ 1 \in 1 .. Len(t) + 1 /\ at - 1 \in 1 - 1 .. Len(t)
    BY <1>0, <2>1
  <2>4. user \in Seq(STRING)
    BY <2>3, PartIs
  <2>5. /\ rest \in Seq(STRING) /\ Len(rest) = Len(t) - (at + 1) + 1
        /\ \A i \in 1 .. Len(t) - (at + 1) + 1 : rest[i] = t[(at + 1) + i - 1]
    BY <2>3, PartIs
  <2>6. Len(rest) = Len(t) - at /\ Len(rest) \in Nat
    BY <1>0, <2>1, <2>5
  <2>7. \A i \in 1 .. Len(rest) : rest[i] = t[at + i]
    <3>1. \A i \in 1 .. Len(rest) : i \in 1 .. Len(t) - (at + 1) + 1 /\ (at + 1) + i - 1 = at + i
      BY <1>0, <2>1, <2>6
    <3> QED BY <2>5, <3>1
  <2> HIDE DEF user, rest
  <2>8. /\ host \in Seq(STRING) /\ path \in Seq(STRING) \cup {None}
        /\ \/ path = None
           \/ \E c \in at + 1 .. Len(t) :
                /\ t[c] = ":" /\ \A i \in at + 1 .. c - 1 : t[i] # ":"
                /\ host = SubSeq(t, at + 1, c - 1)
                /\ path = SubSeq(t, c + 1, Len(t))
    <3>1. CASE colon = 0
      BY <2>5, <3>1
    <3>2. CASE colon # 0
      <4>1. colon \in 1 .. Len(rest) /\ rest[colon] = ":" /\ \A i \in 1 .. colon - 1 : rest[i] # ":"
        BY <2>5, <3>2, PositionIs
      <4>2. host = SubSeq(rest, 1, colon - 1) /\ path = SubSeq(rest, colon + 1, Len(rest))
        BY <3>2
      <4> HIDE DEF colon, host, path
      <4> DEFINE c == at + colon
      <4>3. c \in at + 1 .. Len(t) /\ c - 1 \in at .. Len(t) /\ Len(t) \in c .. Len(t)
        BY <1>0, <2>1, <2>6, <4>1
      <4>4. t[c] = ":"
        BY <2>7, <4>1
      <4>5. ASSUME NEW i \in at + 1 .. c - 1 PROVE t[i] # ":"
        <5>1. i - at \in 1 .. colon - 1 /\ i - at \in 1 .. Len(rest) /\ at + (i - at) = i
          BY <1>0, <2>1, <2>6, <4>1
        <5> QED BY <2>7, <4>1, <5>1
      <4>6. /\ host \in Seq(STRING) /\ Len(host) = colon - 1
            /\ \A i \in 1 .. colon - 1 : host[i] = rest[i]
        <5>1. 1 \in 1 .. Len(rest) + 1 /\ colon - 1 \in 1 - 1 .. Len(rest)
          BY <2>6, <4>1
        <5>2. /\ host \in Seq(STRING) /\ Len(host) = (colon - 1) - 1 + 1
              /\ \A i \in 1 .. (colon - 1) - 1 + 1 : host[i] = rest[1 + i - 1]
          BY <2>5, <4>2, <5>1, PartIs
        <5>3. /\ (colon - 1) - 1 + 1 = colon - 1
              /\ \A i \in 1 .. colon - 1 : 1 + i - 1 = i
          BY <4>1
        <5> QED BY <5>2, <5>3
      <4>7. /\ path \in Seq(STRING) /\ Len(path) = Len(rest) - colon
            /\ \A i \in 1 .. Len(rest) - colon : path[i] = rest[colon + i]
        <5>1. colon + 1 \in 1 .. Len(rest) + 1 /\ Len(rest) \in (colon + 1) - 1 .. Len(rest)
          BY <2>6, <4>1
        <5>2. /\ path \in Seq(STRING) /\ Len(path) = Len(rest) - (colon + 1) + 1
              /\ \A i \in 1 .. Len(rest) - (colon + 1) + 1 : path[i] = rest[(colon + 1) + i - 1]
          BY <2>5, <4>2, <5>1, PartIs
        <5>3. /\ Len(rest) - (colon + 1) + 1 = Len(rest) - colon
              /\ \A i \in 1 .. Len(rest) - colon : (colon + 1) + i - 1 = colon + i
          BY <2>6, <4>1
        <5> QED BY <5>2, <5>3
      <4> HIDE DEF c
      <4>8. host = SubSeq(t, at + 1, c - 1)
        <5> DEFINE u == SubSeq(t, at + 1, c - 1)
        <5>1. at + 1 \in 1 .. Len(t) + 1 /\ c - 1 \in (at + 1) - 1 .. Len(t)
          BY <1>0, <2>1, <4>3
        <5>2. /\ u \in Seq(STRING) /\ Len(u) = (c - 1) - (at + 1) + 1
              /\ \A i \in 1 .. (c - 1) - (at + 1) + 1 : u[i] = t[(at + 1) + i - 1]
          BY <5>1, PartIs
        <5> HIDE DEF u
        <5>3. Len(u) = Len(host)
          BY <1>0, <2>1, <4>1, <4>6, <5>2 DEF c
        <5>4. ASSUME NEW i \in 1 .. Len(host) PROVE u[i] = host[i]
          <6>1. /\ i \in 1 .. (c - 1) - (at + 1) + 1 /\ (at + 1) + i - 1 = at + i
                /\ i \in 1 .. Len(rest) /\ i \in 1 .. colon - 1
            BY <1>0, <2>1, <2>6, <4>1, <4>6 DEF c
          <6> QED BY <2>7, <4>6, <5>2, <6>1
        <5> QED BY <4>6, <5>2, <5>3, <5>4, SeqEqual DEF u
      <4>9. path = SubSeq(t, c + 1, Len(t))
        <5> DEFINE u == SubSeq(t, c + 1, Len(t))
        <5>1. c + 1 \in 1 .. Len(t) + 1 /\ Len(t) \in (c + 1) - 1 .. Len(t)
          BY <1>0, <2>1, <4>3
        <5>2. /\ u \in Seq(STRING) /\ Len(u) = Len(t) - (c + 1) + 1
              /\ \A i \in 1 .. Len(t) - (c + 1) + 1 : u[i] = t[(c + 1) + i - 1]
          BY <5>1, PartIs
        <5> HIDE DEF u
        <5>3. Len(u) = Len(path)
          BY <1>0, <2>1, <2>6, <4>1, <4>7, <5>2 DEF c
        <5>4. ASSUME NEW i \in 1 .. Len(path) PROVE u[i] = path[i]
          <6>1. /\ i \in 1 .. Len(t) - (c + 1) + 1 /\ (c + 1) + i - 1 = at + (colon + i)
                /\ colon + i \in 1 .. Len(rest) /\ i \in 1 .. Len(rest) - colon
            BY <1>0, <2>1, <2>6, <4>1, <4>7 DEF c
          <6> QED BY <2>7, <4>7, <5>2, <6>1
        <5> QED BY <4>7, <5>2, <5>3, <5>4, SeqEqual DEF u
      <4> QED BY <4>3, <4>4, <4>5, <4>6, <4>7, <4>8, <4>9
    <3> QED BY <3>1, <3>2
  <2> HIDE DEF host, path
  <2> DEFINE r == [o EXCEPT !.user = user, !.host = host, !.path = path]
  <2>9. /\ r \in sftfs_options /\ r.port = o.port /\ r.target_buffer = o.target_buffer
        /\ r.user = user /\ r.host = host /\ r.path = path
    <3>1. user \in CStr /\ host \in CStr /\ path \in CStr
      BY <2>4, <2>8 DEF CStr
    <3> QED BY <3>1 DEF sftfs_options
  <2>10. r # None
    BY <2>9, StartAssumption
  <2> HIDE DEF r
  <2>11. TakenApart(r, t)
    BY <2>1, <2>8, <2>9 DEF TakenApart, user
  <2> QED BY <2>2, <2>9, <2>10, <2>11 DEF r
<1> QED BY <1>1, <1>2

\* How many arguments have been looked at.
Seen == Len(given) - Len(argv)

\* The e-th argument is the first that is no option.
FirstTarget(e) ==
    /\ given[e].key = "nonopt"
    /\ \A i \in 1 .. e - 1 : given[i].key # "nonopt"

\* After n arguments the target is the first one that is no option.
TargetSeen(n) ==
    \/ /\ opts.target_buffer = None /\ opts.path = None
       /\ \A i \in 1 .. n : given[i].key # "nonopt"
    \/ \E e \in 1 .. n : /\ FirstTarget(e)
                         /\ opts.target_buffer = given[e].text
                         /\ TakenApart(opts, given[e].text)

\* After n arguments the port is the last one that was given.
PortSeen(n) ==
    \/ opts.port = 22 /\ \A i \in 1 .. n : given[i].key # "port"
    \/ \E e \in 1 .. n : /\ given[e].key = "port" /\ opts.port = given[e].num
                         /\ \A i \in e + 1 .. n : given[i].key # "port"

\* The arguments that are left are the last of those given, and the options say
\* what the others said.
ArgsLeft ==
    /\ given \in Seq(Arg) /\ argv \in Seq(Arg)
    /\ Len(argv) <= Len(given)
    /\ \A i \in 1 .. Len(argv) : argv[i] = given[Seen + i]
    /\ TargetSeen(Seen) /\ PortSeen(Seen)

\* The options are those of the arguments handled so far.
ArgsInv ==
    /\ opts \in sftfs_options
    /\ stage \in Early => ArgsLeft
    /\ stage = "connect" => argv = <<>> /\ opts.path # None
    /\ status = "crash" =>
        /\ given \in Seq(Arg)
        /\ \E e \in 1 .. Len(given) :
            FirstTarget(e) /\ \A i \in 1 .. Len(given[e].text) : given[e].text[i] # "@"

\* One argument is looked at.
LEMMA ProcessArgStep ==
    ASSUME HeldInv, ArgsInv, ProcessArg
    PROVE  ArgsInv'
<1>0. /\ given \in Seq(Arg) /\ argv \in Seq(Arg) /\ Len(argv) <= Len(given)
      /\ \A i \in 1 .. Len(argv) : argv[i] = given[Seen + i]
      /\ TargetSeen(Seen) /\ PortSeen(Seen) /\ opts \in sftfs_options
      /\ argv # <<>> /\ argv' = Tail(argv) /\ given' = given /\ stage = "args" /\ status = None
  BY DEF ProcessArg, ArgsInv, ArgsLeft, HeldInv, Early
<1> DEFINE arg == Head(argv)
<1>a. Len(given) \in Nat /\ Len(argv) \in Nat /\ Len(argv) # 0
  BY <1>0, LenProperties, EmptySeq
<1>b. Seen \in Nat /\ Seen + 1 \in 1 .. Len(given)
  BY <1>0, <1>a DEF Seen
<1>c. PICK n \in Nat : n = Seen
  BY <1>b
<1>1. /\ Len(given) \in Nat /\ Len(argv) \in Nat /\ Len(argv) > 0
      /\ n \in Nat /\ n + 1 \in 1 .. Len(given)
  BY <1>a, <1>b, <1>c
<1>2. /\ argv' \in Seq(Arg) /\ Len(argv') = Len(argv) - 1
      /\ \A i \in 1 .. Len(argv) - 1 : argv'[i] = argv[i + 1]
      /\ arg = argv[1]
  BY <1>0, HeadTailProperties
<1>3. Seen' = n + 1
  BY <1>0, <1>1, <1>2, <1>c DEF Seen
<1>4. arg = given[n + 1] /\ arg \in Arg
  <2>1. argv[1] = given[n + 1]
    BY <1>0, <1>1, <1>c
  <2> QED BY <1>0, <1>1, <1>2, <2>1, ElementOfSeq
<1>5. \A i \in 1 .. Len(argv') : argv'[i] = given[(n + 1) + i]
  <2>1. ASSUME NEW i \in 1 .. Len(argv) - 1
        PROVE  argv'[i] = given[(n + 1) + i]
    <3>1. i + 1 \in 1 .. Len(argv) /\ n + (i + 1) = (n + 1) + i
      BY <1>1
    <3>2. argv[i + 1] = given[n + (i + 1)]
      BY <1>0, <1>c, <3>1
    <3> QED BY <1>2, <3>1, <3>2
  <2> QED BY <1>2, <2>1
<1>6. Len(argv') <= Len(given')
  BY <1>0, <1>1, <1>2
<1> HIDE DEF arg
<1>7. /\ \A i \in 1 .. n + 1 : i \in 1 .. n \/ i = n + 1
      /\ \A i \in 1 .. n : i \in 1 .. n + 1
      /\ \A i \in n + 2 .. n + 1 : FALSE
      /\ \A e \in 1 .. n : \A i \in e + 1 .. n + 1 : i \in e + 1 .. n \/ i = n + 1
  BY <1>1
<1>8. TargetSeen(n) /\ PortSeen(n)
  BY <1>0, <1>c
<1>9. ASSUME arg.key # "nonopt", opts'.target_buffer = opts.target_buffer,
             opts'.path = opts.path, opts'.user = opts.user, opts'.host = opts.host
      PROVE  TargetSeen(n + 1)'
  <2>1. CASE /\ opts.target_buffer = None /\ opts.path = None
             /\ \A i \in 1 .. n : given[i].key # "nonopt"
    BY <1>0, <1>4, <1>7, <1>9, <2>1 DEF TargetSeen
  <2>2. ASSUME NEW e \in 1 .. n, FirstTarget(e), opts.target_buffer = given[e].text,
               TakenApart(opts, given[e].text)
        PROVE  TargetSeen(n + 1)'
    <3>1. FirstTarget(e)' /\ TakenApart(opts, given[e].text)'
      BY <1>0, <1>9, <2>2 DEF FirstTarget, TakenApart
    <3>2. e \in 1 .. n + 1 /\ opts'.target_buffer = given'[e].text
      BY <1>0, <1>7, <1>9, <2>2
    <3> QED BY <3>1, <3>2 DEF TargetSeen
  <2> QED BY <1>8, <2>1, <2>2 DEF TargetSeen
<1>10. ASSUME arg.key # "port", opts'.port = opts.port
       PROVE  PortSeen(n + 1)'
  <2>1. CASE opts.port = 22 /\ \A i \in 1 .. n : given[i].key # "port"
    BY <1>0, <1>4, <1>7, <1>10, <2>1 DEF PortSeen
  <2>2. ASSUME NEW e \in 1 .. n, given[e].key = "port", opts.port = given[e].num,
               \A i \in e + 1 .. n : given[i].key # "port"
        PROVE  PortSeen(n + 1)'
    <3>1. \A i \in e + 1 .. n + 1 : given[i].key # "port"
      BY <1>4, <1>7, <1>10, <2>2
    <3> QED BY <1>0, <1>7, <1>10, <2>2, <3>1 DEF PortSeen
  <2> QED BY <1>8, <2>1, <2>2 DEF PortSeen
<1>11. ASSUME opts' \in sftfs_options, TargetSeen(n + 1)', PortSeen(n + 1)',
              UNCHANGED <<stage, status>>
       PROVE  ArgsInv'
  <2>1. TargetSeen(Seen)' /\ PortSeen(Seen)'
    BY <1>3, <1>11 DEF TargetSeen, PortSeen
  <2>2. ArgsLeft'
    BY <1>0, <1>2, <1>3, <1>5, <1>6, <2>1 DEF ArgsLeft
  <2>3. stage' = "args" /\ status' # "crash"
    BY <1>0, <1>11, StartAssumption DEF Reason
  <2> QED BY <1>11, <2>2, <2>3 DEF ArgsInv
<1>12. CASE /\ arg.key = "port"
            /\ opts' = [opts EXCEPT !.port = ParsePort(arg)]
            /\ IF ParsePort(arg) < 0 THEN Exit("usage") ELSE UNCHANGED <<stage, status>>
  <2>1. arg.num \in Int /\ arg.tail \in BOOLEAN
    BY <1>4, <1>12 DEF Arg
  <2>2. /\ ParsePort(arg) \in PortRange
        /\ ~ ParsePort(arg) < 0 => ParsePort(arg) = arg.num
    <3>1. CASE arg.tail \/ arg.num < 0 \/ arg.num > 65535
      BY <3>1 DEF ParsePort, PortRange
    <3>2. CASE ~ (arg.tail \/ arg.num < 0 \/ arg.num > 65535)
      <4>1. ParsePort(arg) = arg.num /\ arg.num >= 0 /\ arg.num <= 65535
        BY <2>1, <3>2 DEF ParsePort
      <4> QED BY <2>1, <4>1 DEF PortRange
    <3> QED BY <3>1, <3>2
  <2>3. /\ opts' \in sftfs_options /\ opts'.port = ParsePort(arg)
        /\ opts'.target_buffer = opts.target_buffer
        /\ opts'.path = opts.path /\ opts'.user = opts.user /\ opts'.host = opts.host
    BY <1>0, <1>12, <2>2 DEF sftfs_options
  <2>4. CASE ParsePort(arg) < 0
    <3>1. stage' = "exit" /\ status' = "usage"
      BY <1>12, <2>4 DEF Exit
    <3> QED BY <2>3, <3>1 DEF ArgsInv, Early
  <2>5. CASE ~ ParsePort(arg) < 0
    <3>1. PortSeen(n + 1)'
      <4>1. n + 1 \in 1 .. n + 1 /\ \A i \in (n + 1) + 1 .. n + 1 : FALSE
        BY <1>1
      <4> QED BY <1>0, <1>4, <1>12, <2>2, <2>3, <2>5, <4>1 DEF PortSeen
    <3> QED BY <1>9, <1>11, <1>12, <2>3, <2>5, <3>1
  <2> QED BY <2>4, <2>5
<1>13. CASE /\ arg.key = "nonopt" /\ NoTargetYet(opts)
            /\ LET o == [opts EXCEPT !.target_buffer = arg.text]
                   parsed == ParseTarget(o, arg.text)
               IN  IF parsed = None THEN opts' = o /\ Exit("crash")
                   ELSE opts' = parsed /\ UNCHANGED <<stage, status>>
  <2> DEFINE o == [opts EXCEPT !.target_buffer = arg.text]
             parsed == ParseTarget(o, arg.text)
  <2>1. arg.text \in Seq(STRING)
    BY <1>4, <1>13 DEF Arg
  <2>2. opts.path = None /\ \A i \in 1 .. n : given[i].key # "nonopt"
    <3>1. ASSUME NEW e \in 1 .. n, FirstTarget(e), opts.target_buffer = given[e].text
          PROVE  FALSE
      <4>1. e \in 1 .. Len(given)
        BY <1>1, <3>1
      <4>2. given[e] \in Arg
        BY <1>0, <4>1, ElementOfSeq
      <4>3. given[e].text \in Seq(STRING)
        BY <3>1, <4>2 DEF Arg, FirstTarget
      <4> QED BY <1>13, <3>1, <4>3, StartAssumption DEF NoTargetYet
    <3> QED BY <1>8, <3>1 DEF TargetSeen
  <2>3. o \in sftfs_options /\ o.path = None /\ o.port = opts.port /\ o.target_buffer = arg.text
    <3>1. arg.text \in CStr
      BY <2>1 DEF CStr
    <3> QED BY <1>0, <2>2, <3>1 DEF sftfs_options
  <2> HIDE DEF o
  <2>4. \/ parsed = None /\ \A i \in 1 .. Len(arg.text) : arg.text[i] # "@"
        \/ /\ parsed # None /\ parsed \in sftfs_options /\ parsed.port = o.port
           /\ parsed.target_buffer = o.target_buffer /\ TakenApart(parsed, arg.text)
    BY <2>1, <2>3, ParseTargetGives
  <2>5. FirstTarget(n + 1)' /\ n + 1 \in 1 .. n + 1
    <3>1. (n + 1) - 1 = n
      BY <1>1
    <3> QED BY <1>0, <1>1, <1>4, <1>13, <2>2, <3>1 DEF FirstTarget
  <2>6. CASE parsed = None
    <3>1. opts' = o /\ stage' = "exit" /\ status' = "crash"
      BY <1>13, <2>6 DEF Exit, o
    <3> QED BY <1>0, <1>1, <1>4, <2>3, <2>4, <2>5, <2>6, <3>1 DEF ArgsInv, Early
  <2>7. CASE parsed # None
    <3>1. opts' = parsed /\ UNCHANGED <<stage, status>>
      BY <1>13, <2>7 DEF o
    <3>2. PortSeen(n + 1)'
      BY <1>10, <1>13, <2>3, <2>4, <2>7, <3>1
    <3>3. TargetSeen(n + 1)'
      BY <1>0, <1>4, <2>3, <2>4, <2>5, <2>7, <3>1 DEF TargetSeen
    <3> QED BY <1>11, <2>4, <2>7, <3>1, <3>2, <3>3
  <2> QED BY <2>6, <2>7
<1>14. CASE arg.key = "help" /\ opts' = [opts EXCEPT !.help = TRUE] /\ UNCHANGED <<stage, status>>
  <2>1. /\ opts' \in sftfs_options /\ opts'.port = opts.port
        /\ opts'.target_buffer = opts.target_buffer
        /\ opts'.path = opts.path /\ opts'.user = opts.user /\ opts'.host = opts.host
    BY <1>0, <1>14 DEF sftfs_options
  <2> QED BY <1>9, <1>10, <1>11, <1>14, <2>1
<1>15. CASE /\ arg.key = "other" \/ (arg.key = "nonopt" /\ ~ NoTargetYet(opts))
            /\ UNCHANGED <<opts, stage, status>>
  <2>1. PortSeen(n + 1)'
    BY <1>10, <1>15
  <2>2. CASE arg.key = "other"
    BY <1>0, <1>9, <1>11, <1>15, <2>1, <2>2
  <2>3. CASE arg.key = "nonopt" /\ opts.target_buffer # None
    <3>1. PICK e \in 1 .. n : /\ FirstTarget(e) /\ opts.target_buffer = given[e].text
                              /\ TakenApart(opts, given[e].text)
      BY <1>8, <2>3 DEF TargetSeen
    <3>2. FirstTarget(e)' /\ TakenApart(opts, given[e].text)' /\ e \in 1 .. n + 1
      BY <1>0, <1>7, <1>15, <3>1 DEF FirstTarget, TakenApart
    <3>3. TargetSeen(n + 1)'
      BY <1>0, <1>15, <3>1, <3>2 DEF TargetSeen
    <3> QED BY <1>0, <1>11, <1>15, <2>1, <3>3
  <2> QED BY <1>15, <2>2, <2>3 DEF NoTargetYet
<1> QED BY <1>12, <1>13, <1>14, <1>15 DEF ProcessArg, arg

\* Every step keeps what is known of the arguments.
LEMMA ArgsStep ==
    ASSUME HeldInv, ArgsInv, StartMoves
    PROVE  ArgsInv'
<1>0. None \notin Reason /\ "crash" \in Reason
  BY StartAssumption DEF Reason
<1>1. CASE CheckOptions
  <2>1. /\ stage = "args" /\ argv = <<>> /\ UNCHANGED <<argv, given, opts>> /\ status = None
        /\ \/ stage' = "exit" /\ status' \in {"help", "usage"}
           \/ stage' = "connect" /\ status' = status /\ opts.path # None
    BY <1>1 DEF CheckOptions, Exit, arguments, HeldInv
  <2>2. ArgsLeft'
    <3>1. ArgsLeft /\ UNCHANGED <<argv, given, opts>>
      BY <2>1 DEF ArgsInv, Early
    <3>2. Seen' = Seen
      BY <3>1 DEF Seen
    <3>3. TargetSeen(Seen)'
      BY <3>1, <3>2 DEF ArgsLeft, TargetSeen, FirstTarget, TakenApart
    <3>4. PortSeen(Seen)'
      BY <3>1, <3>2 DEF ArgsLeft, PortSeen
    <3> QED BY <3>1, <3>2, <3>3, <3>4 DEF ArgsLeft
  <2>3. status' # "crash"
    BY <1>0, <2>1
  <2>4. opts' \in sftfs_options
    BY <2>1 DEF ArgsInv
  <2> QED BY <2>1, <2>2, <2>3, <2>4 DEF ArgsInv, Early
<1>2. CASE Connect
  <2>1. stage' \notin Early /\ status' # "crash" /\ opts' = NoOpts
    BY <1>0, <1>2 DEF Connect, Exit, Early, HeldInv
  <2>2. NoOpts \in sftfs_options
    <3>1. None \in CStr /\ 22 \in PortRange
      BY DEF CStr, PortRange
    <3> QED BY <3>1 DEF NoOpts, sftfs_options
  <2> QED BY <2>1, <2>2 DEF ArgsInv, Early
<1>3. ASSUME stage' \notin Early, UNCHANGED opts, status' # "crash"
      PROVE  ArgsInv'
  BY <1>3 DEF ArgsInv, Early
<1>4. CASE AskServer \/ Dialogue \/ UpdateKnownHosts \/ Disconnect \/ FuseMain \/ Unmount
  <2>1. UNCHANGED opts /\ stage' \notin Early /\ (status' = status \/ status' # "crash")
    BY <1>4 DEF AskServer, Dialogue, UpdateKnownHosts, Disconnect, FuseMain, Unmount, Exit,
                arguments, Early
  <2>2. stage # "exit"
    BY <1>4 DEF AskServer, Dialogue, UpdateKnownHosts, Disconnect, FuseMain, Unmount
  <2> QED BY <1>0, <1>3, <2>1, <2>2 DEF HeldInv
<1>5. CASE (\E ok \in BOOLEAN : Authorized(ok)) \/ Acquire
  <2>1. UNCHANGED opts /\ stage' \notin Early /\ status' = status /\ stage # "exit"
    BY <1>5 DEF Authorized, Acquire, arguments, Early
  <2> QED BY <1>0, <1>3, <2>1 DEF HeldInv
<1>6. CASE Release
  <2>1. UNCHANGED opts /\ stage' \notin Early /\ (status' = status \/ status' # "crash")
        /\ stage # "exit"
    BY <1>6 DEF Release, Exit, arguments, Early
  <2> QED BY <1>0, <1>3, <2>1 DEF HeldInv
<1> QED BY <1>1, <1>2, <1>4, <1>5, <1>6, ProcessArgStep DEF StartMoves

\* What is checked of the options follows: the CHOOSEs of Earliest and Latest have
\* only one candidate.
LEMMA ArgsProperties ==
    ASSUME HeldInv, ArgsInv
    PROVE  ConnectsAsAsked
<1> DEFINE target == given[Earliest(Given("nonopt"))].text
<1>1. ASSUME given \in Seq(Arg), NEW e \in 1 .. Len(given), FirstTarget(e)
      PROVE  target = given[e].text /\ target \in Seq(STRING) /\ DOMAIN target = 1 .. Len(target)
  <2>1. DOMAIN given = 1 .. Len(given) /\ Len(given) \in Nat
    BY <1>1, LenProperties
  <2>2. e \in Given("nonopt") /\ Given("nonopt") \subseteq 1 .. Len(given)
    BY <1>1, <2>1 DEF Given, FirstTarget
  <2>3. ASSUME NEW j \in Given("nonopt") PROVE e <= j
    <3>1. j \in 1 .. Len(given) /\ given[j].key = "nonopt"
      BY <2>1, <2>3 DEF Given
    <3>2. j \notin 1 .. e - 1
      BY <1>1, <3>1 DEF FirstTarget
    <3> QED BY <2>1, <3>1, <3>2
  <2>4. \A i \in Given("nonopt") : (\A j \in Given("nonopt") : i <= j) => i = e
    BY <2>1, <2>2, <2>3
  <2>5. Earliest(Given("nonopt")) = e
    BY <2>2, <2>3, <2>4 DEF Earliest
  <2>6. given[e] \in Arg
    BY <1>1, ElementOfSeq
  <2>7. given[e].text \in Seq(STRING)
    BY <1>1, <2>6 DEF Arg, FirstTarget
  <2> QED BY <2>5, <2>7, LenProperties
<1>2. ASSUME stage = "connect"
      PROVE  /\ \E a, c \in DOMAIN target :
                    /\ Divides(target, a, c)
                    /\ opts.user = SubSeq(target, 1, a - 1)
                    /\ opts.host = SubSeq(target, a + 1, c - 1)
                    /\ opts.path = SubSeq(target, c + 1, Len(target))
             /\ opts.port = IF Given("port") = {} THEN 22 ELSE given[Latest(Given("port"))].num
  <2>1. /\ given \in Seq(Arg) /\ TargetSeen(Seen) /\ PortSeen(Seen) /\ argv = <<>>
        /\ opts.path # None
    BY <1>2 DEF ArgsInv, ArgsLeft, Early
  <2>2. Len(given) \in Nat /\ Seen = Len(given) /\ DOMAIN given = 1 .. Len(given)
    <3>1. Len(argv) = 0
      BY <2>1
    <3>2. Len(given) \in Nat /\ DOMAIN given = 1 .. Len(given)
      BY <2>1, LenProperties
    <3> QED BY <3>1, <3>2 DEF Seen
  <2>3. PICK e \in 1 .. Len(given) : FirstTarget(e) /\ TakenApart(opts, given[e].text)
    BY <2>1, <2>2 DEF TargetSeen
  <2>4. target = given[e].text /\ target \in Seq(STRING) /\ DOMAIN target = 1 .. Len(target)
    BY <1>1, <2>1, <2>3
  <2> HIDE DEF target
  <2>5. PICK a \in 1 .. Len(target) :
            /\ target[a] = "@" /\ \A i \in 1 .. a - 1 : target[i] # "@"
            /\ opts.user = SubSeq(target, 1, a - 1)
            /\ \E c \in a + 1 .. Len(target) :
                /\ target[c] = ":" /\ \A i \in a + 1 .. c - 1 : target[i] # ":"
                /\ opts.host = SubSeq(target, a + 1, c - 1)
                /\ opts.path = SubSeq(target, c + 1, Len(target))
    BY <2>1, <2>3, <2>4 DEF TakenApart
  <2>6. PICK c \in a + 1 .. Len(target) :
            /\ target[c] = ":" /\ \A i \in a + 1 .. c - 1 : target[i] # ":"
            /\ opts.host = SubSeq(target, a + 1, c - 1)
            /\ opts.path = SubSeq(target, c + 1, Len(target))
    BY <2>5
  <2>7. Len(target) \in Nat /\ a < c /\ c \in 1 .. Len(target)
    <3>1. Len(target) \in Nat
      BY <2>4, LenProperties
    <3> QED BY <3>1
  <2>8. "@" \notin Range(SubSeq(target, 1, a - 1))
    <3>1. 1 \in 1 .. Len(target) + 1 /\ a - 1 \in 1 - 1 .. Len(target)
          /\ (a - 1) - 1 + 1 = a - 1 /\ \A i \in 1 .. a - 1 : 1 + i - 1 = i
      BY <2>7
    <3> DEFINE u == SubSeq(target, 1, a - 1)
    <3>2. /\ u \in Seq(STRING) /\ Len(u) = (a - 1) - 1 + 1
          /\ \A i \in 1 .. (a - 1) - 1 + 1 : u[i] = target[1 + i - 1]
      BY <2>4, <3>1, PartIs
    <3> HIDE DEF u
    <3>3. DOMAIN u = 1 .. a - 1 /\ \A i \in 1 .. a - 1 : u[i] = target[i]
      BY <3>1, <3>2, LenProperties
    <3> QED BY <2>5, <3>3 DEF Range, u
  <2>9. ":" \notin Range(SubSeq(target, a + 1, c - 1))
    <3>1. a + 1 \in 1 .. Len(target) + 1 /\ c - 1 \in (a + 1) - 1 .. Len(target)
          /\ \A i \in 1 .. (c - 1) - (a + 1) + 1 : (a + 1) + i - 1 \in a + 1 .. c - 1
      BY <2>7
    <3> DEFINE u == SubSeq(target, a + 1, c - 1)
    <3>2. /\ u \in Seq(STRING) /\ Len(u) = (c - 1) - (a + 1) + 1
          /\ \A i \in 1 .. (c - 1) - (a + 1) + 1 : u[i] = target[(a + 1) + i - 1]
      BY <2>4, <3>1, PartIs
    <3> HIDE DEF u
    <3>3. /\ DOMAIN u = 1 .. (c - 1) - (a + 1) + 1
          /\ \A i \in 1 .. (c - 1) - (a + 1) + 1 : u[i] # ":"
      BY <2>6, <3>1, <3>2, LenProperties
    <3> QED BY <3>3 DEF Range, u
  <2>10. Divides(target, a, c)
    BY <2>5, <2>6, <2>7, <2>8, <2>9 DEF Divides
  <2>11. opts.port = IF Given("port") = {} THEN 22 ELSE given[Latest(Given("port"))].num
    <3>1. CASE opts.port = 22 /\ \A i \in 1 .. Len(given) : given[i].key # "port"
      <4>1. Given("port") = {}
        BY <2>2, <3>1 DEF Given
      <4> QED BY <3>1, <4>1
    <3>2. ASSUME NEW k \in 1 .. Len(given), given[k].key = "port", opts.port = given[k].num,
                 \A i \in k + 1 .. Len(given) : given[i].key # "port"
          PROVE  opts.port = IF Given("port") = {} THEN 22 ELSE given[Latest(Given("port"))].num
      <4>1. k \in Given("port") /\ Given("port") \subseteq 1 .. Len(given)
        BY <2>2, <3>2 DEF Given
      <4>2. ASSUME NEW j \in Given("port") PROVE k >= j
        <5>1. j \in 1 .. Len(given) /\ j \notin k + 1 .. Len(given)
          BY <2>2, <3>2, <4>2 DEF Given
        <5> QED BY <2>2, <5>1
      <4>3. \A i \in Given("port") : (\A j \in Given("port") : i >= j) => i = k
        BY <2>2, <4>1, <4>2
      <4>4. Latest(Given("port")) = k
        BY <4>1, <4>2, <4>3 DEF Latest
      <4> QED BY <3>2, <4>1, <4>4
    <3> QED BY <2>1, <2>2, <3>1, <3>2 DEF PortSeen
  <2> QED BY <2>4, <2>5, <2>6, <2>7, <2>10, <2>11
<1>3. ASSUME status = "crash"
      PROVE  "@" \notin Range(target)
  <2>1. PICK e \in 1 .. Len(given) :
            FirstTarget(e) /\ \A i \in 1 .. Len(given[e].text) : given[e].text[i] # "@"
    BY <1>3 DEF ArgsInv
  <2>2. target = given[e].text /\ DOMAIN target = 1 .. Len(target)
    BY <1>1, <1>3, <2>1 DEF ArgsInv
  <2> HIDE DEF target
  <2> QED BY <2>1, <2>2 DEF Range
<1> QED BY <1>2, <1>3 DEF ConnectsAsAsked

-----------------------------------------------------------------------------
(* The dialogue *)

\* A text is compared character by character.
LEMMA TextIs ==
    ASSUME NEW s \in Seq(STRING), NEW a, NEW b, NEW c
    PROVE  /\ s = <<a, b>> <=> Len(s) = 2 /\ s[1] = a /\ s[2] = b
           /\ s = <<a, b, c>> <=> Len(s) = 3 /\ s[1] = a /\ s[2] = b /\ s[3] = c
<1> DEFINE S == STRING \cup {a, b, c}
<1>1. s \in Seq(S) /\ <<a, b>> \in Seq(S) /\ <<a, b, c>> \in Seq(S)
  <2>1. s \in Seq(S)
    <3>1. STRING \subseteq S
      OBVIOUS
    <3> QED BY <3>1, SeqMonotonic
  <2>2. a \in S /\ b \in S /\ c \in S
    OBVIOUS
  <2> HIDE DEF S
  <2> QED BY <2>1, <2>2
<1> HIDE DEF S
<1>2. ASSUME Len(s) = 2, s[1] = a, s[2] = b PROVE s = <<a, b>>
  <2>1. Len(<<a, b>>) = 2 /\ \A i \in 1 .. 2 : s[i] = <<a, b>>[i]
    BY <1>2
  <2> QED BY <1>1, <1>2, <2>1, SeqEqual
<1>3. ASSUME Len(s) = 3, s[1] = a, s[2] = b, s[3] = c PROVE s = <<a, b, c>>
  <2>1. Len(<<a, b, c>>) = 3 /\ \A i \in 1 .. 3 : s[i] = <<a, b, c>>[i]
    BY <1>3
  <2> QED BY <1>1, <1>3, <2>1, SeqEqual
<1> QED BY <1>2, <1>3

\* The beginning of a text.
LEMMA BeginningIs ==
    ASSUME NEW s \in Seq(STRING), NEW n \in 0 .. Len(s)
    PROVE  /\ SubSeq(s, 1, n) \in Seq(STRING) /\ Len(SubSeq(s, 1, n)) = n
           /\ \A i \in 1 .. n : SubSeq(s, 1, n)[i] = s[i]
<1>1. Len(s) \in Nat
  BY LenProperties
<1>2. 1 \in 1 .. Len(s) + 1 /\ n \in 1 - 1 .. Len(s) /\ n - 1 + 1 = n
      /\ \A i \in 1 .. n : 1 + i - 1 = i
  BY <1>1
<1>3. /\ SubSeq(s, 1, n) \in Seq(STRING) /\ Len(SubSeq(s, 1, n)) = n - 1 + 1
      /\ \A i \in 1 .. n - 1 + 1 : SubSeq(s, 1, n)[i] = s[1 + i - 1]
  BY <1>2, PartIs
<1> QED BY <1>2, <1>3

\* What is left of a text.
LEMMA RestIs ==
    ASSUME NEW s \in Seq(STRING), NEW n \in 0 .. Len(s)
    PROVE  /\ SubSeq(s, n + 1, Len(s)) \in Seq(STRING)
           /\ Len(SubSeq(s, n + 1, Len(s))) = Len(s) - n
           /\ \A i \in 1 .. Len(s) - n : SubSeq(s, n + 1, Len(s))[i] = s[n + i]
<1>1. Len(s) \in Nat
  BY LenProperties
<1>2. n + 1 \in 1 .. Len(s) + 1 /\ Len(s) \in (n + 1) - 1 .. Len(s)
      /\ Len(s) - (n + 1) + 1 = Len(s) - n
      /\ \A i \in 1 .. Len(s) - n : (n + 1) + i - 1 = n + i
  BY <1>1
<1>3. /\ SubSeq(s, n + 1, Len(s)) \in Seq(STRING)
      /\ Len(SubSeq(s, n + 1, Len(s))) = Len(s) - (n + 1) + 1
      /\ \A i \in 1 .. Len(s) - (n + 1) + 1 :
            SubSeq(s, n + 1, Len(s))[i] = s[(n + 1) + i - 1]
  BY <1>2, PartIs
<1> QED BY <1>2, <1>3

\* strncmp() with "yes" and "no".
LEMMA AnswerIs ==
    ASSUME NEW s \in Seq(STRING)
    PROVE  /\ IsYes(s) <=> Len(s) = 3 /\ s[1] = "y" /\ s[2] = "e" /\ s[3] = "s"
           /\ IsNo(s) <=> Len(s) >= 2 /\ s[1] = "n" /\ s[2] = "o"
<1>1. IsYes(s) <=> Len(s) = 3 /\ s[1] = "y" /\ s[2] = "e" /\ s[3] = "s"
  BY TextIs DEF IsYes
<1>2. ASSUME Len(s) >= 2
      PROVE  SubSeq(s, 1, 2) = <<"n", "o">> <=> s[1] = "n" /\ s[2] = "o"
  <2> DEFINE u == SubSeq(s, 1, 2)
  <2>1. 2 \in 0 .. Len(s)
    BY <1>2, LenProperties
  <2>2. u \in Seq(STRING) /\ Len(u) = 2 /\ \A i \in 1 .. 2 : u[i] = s[i]
    BY <2>1, BeginningIs
  <2> HIDE DEF u
  <2>3. u[1] = s[1] /\ u[2] = s[2]
    BY <2>2
  <2>4. u = <<"n", "o">> <=> Len(u) = 2 /\ u[1] = "n" /\ u[2] = "o"
    BY <2>2, TextIs
  <2> QED BY <2>2, <2>3, <2>4 DEF u
<1> QED BY <1>1, <1>2 DEF IsNo

\* A line that begins with "yes", or with "no".
LEMMA BeginsIs ==
    ASSUME typed \in Seq(STRING), NEW i \in 1 .. Len(typed)
    PROVE  /\ Begins(i, <<"y", "e", "s">>) <=>
                /\ i = 1 \/ typed[i - 1] = "nl"
                /\ i + 2 <= Len(typed)
                /\ typed[i] = "y" /\ typed[i + 1] = "e" /\ typed[i + 2] = "s"
           /\ Begins(i, <<"n", "o">>) <=>
                /\ i = 1 \/ typed[i - 1] = "nl"
                /\ i + 1 <= Len(typed)
                /\ typed[i] = "n" /\ typed[i + 1] = "o"
<1> DEFINE u == SubSeq(typed, i, Len(typed))
<1>0. Len(typed) \in Nat
  BY LenProperties
<1>1. /\ u \in Seq(STRING) /\ Len(u) = Len(typed) - i + 1
      /\ \A j \in 1 .. Len(typed) - i + 1 : u[j] = typed[i + j - 1]
  <2>1. i \in 1 .. Len(typed) + 1 /\ Len(typed) \in i - 1 .. Len(typed)
    BY <1>0
  <2> QED BY <2>1, PartIs
<1> HIDE DEF u
<1>2. Len(u) \in Nat
  BY <1>0, <1>1
<1>3. IsPrefix(<<"y", "e", "s">>, u) <=>
        /\ i + 2 <= Len(typed)
        /\ typed[i] = "y" /\ typed[i + 1] = "e" /\ typed[i + 2] = "s"
  <2> DEFINE w == <<"y", "e", "s">>
             v == SubSeq(u, 1, 3)
  <2>1. Len(w) = 3 /\ SubSeq(w, 1, 3) = w
    <3>1. w \in Seq({"y", "e", "s"}) /\ Len(w) = 3
      OBVIOUS
    <3> HIDE DEF w
    <3> QED BY <3>1, SubSeqFull
  <2>2. IsPrefix(w, u) <=> 3 <= Len(u) /\ w = v
    <3> HIDE DEF w
    <3> QED BY <2>1 DEF IsPrefix
  <2>3. 3 <= Len(u) <=> i + 2 <= Len(typed)
    BY <1>0, <1>1
  <2>4. ASSUME 3 <= Len(u)
        PROVE  w = v <=> typed[i] = "y" /\ typed[i + 1] = "e" /\ typed[i + 2] = "s"
    <3>1. 3 \in 0 .. Len(u)
      BY <1>2, <2>4
    <3>2. v \in Seq(STRING) /\ Len(v) = 3 /\ \A j \in 1 .. 3 : v[j] = u[j]
      BY <1>1, <3>1, BeginningIs
    <3> HIDE DEF v
    <3>3. v[1] = u[1] /\ v[2] = u[2] /\ v[3] = u[3]
      BY <3>2
    <3>4. /\ 1 \in 1 .. Len(typed) - i + 1 /\ 2 \in 1 .. Len(typed) - i + 1
          /\ 3 \in 1 .. Len(typed) - i + 1
          /\ i + 1 - 1 = i /\ i + 2 - 1 = i + 1 /\ i + 3 - 1 = i + 2
      BY <1>0, <1>1, <2>4
    <3>5. u[1] = typed[i] /\ u[2] = typed[i + 1] /\ u[3] = typed[i + 2]
      BY <1>1, <3>4
    <3>6. v = <<"y", "e", "s">> <=> Len(v) = 3 /\ v[1] = "y" /\ v[2] = "e" /\ v[3] = "s"
      BY <3>2, TextIs
    <3> QED BY <3>2, <3>3, <3>5, <3>6
  <2> HIDE DEF v
  <2> QED BY <2>2, <2>3, <2>4
<1>4. IsPrefix(<<"n", "o">>, u) <=>
        i + 1 <= Len(typed) /\ typed[i] = "n" /\ typed[i + 1] = "o"
  <2> DEFINE w == <<"n", "o">>
             v == SubSeq(u, 1, 2)
  <2>1. Len(w) = 2 /\ SubSeq(w, 1, 2) = w
    <3>1. w \in Seq({"n", "o"}) /\ Len(w) = 2
      OBVIOUS
    <3> HIDE DEF w
    <3> QED BY <3>1, SubSeqFull
  <2>2. IsPrefix(w, u) <=> 2 <= Len(u) /\ w = v
    <3> HIDE DEF w
    <3> QED BY <2>1 DEF IsPrefix
  <2>3. 2 <= Len(u) <=> i + 1 <= Len(typed)
    BY <1>0, <1>1
  <2>4. ASSUME 2 <= Len(u)
        PROVE  w = v <=> typed[i] = "n" /\ typed[i + 1] = "o"
    <3>1. 2 \in 0 .. Len(u)
      BY <1>2, <2>4
    <3>2. v \in Seq(STRING) /\ Len(v) = 2 /\ \A j \in 1 .. 2 : v[j] = u[j]
      BY <1>1, <3>1, BeginningIs
    <3> HIDE DEF v
    <3>3. v[1] = u[1] /\ v[2] = u[2]
      BY <3>2
    <3>4. /\ 1 \in 1 .. Len(typed) - i + 1 /\ 2 \in 1 .. Len(typed) - i + 1
          /\ i + 1 - 1 = i /\ i + 2 - 1 = i + 1
      BY <1>0, <1>1, <2>4
    <3>5. u[1] = typed[i] /\ u[2] = typed[i + 1]
      BY <1>1, <3>4
    <3>6. v = <<"n", "o">> <=> Len(v) = 2 /\ v[1] = "n" /\ v[2] = "o"
      BY <3>2, TextIs
    <3> QED BY <3>2, <3>3, <3>5, <3>6
  <2> HIDE DEF v
  <2> QED BY <2>2, <2>3, <2>4
<1> QED BY <1>3, <1>4 DEF Begins, u

\* get_line(), when nothing lies behind its buffer: the line ends at "end", and is
\* understood up to its third character unless it is ended by then.
LEMMA GetLineGives ==
    ASSUME NEW s \in Seq(STRING), s # <<>>
    PROVE  LET line == GetLine(s, FALSE)
           IN  \E end \in 1 .. Len(s) :
                /\ \A i \in 1 .. end - 1 : s[i] # "nl"
                /\ s[end] = "nl" \/ end = Len(s)
                /\ line.rest = SubSeq(s, end + 1, Len(s))
                /\ \/ end <= 3 /\ s[end] = "nl" /\ line.response = <<>>
                   \/ /\ end > 3 \/ s[end] # "nl"
                      /\ line.response = SubSeq(s, 1, IF end < 3 THEN end ELSE 3)
<1> DEFINE nl == Position(s, "nl")
           end == IF nl = 0 THEN Len(s) ELSE nl
           k == IF end < 3 THEN end ELSE 3
           got == SubSeq(s, 1, k)
           behind == SubSeq(s, Len(got) + 1, Len(s))
           line == GetLine(s, FALSE)
<1>0. Len(s) \in Nat /\ Len(s) # 0
  BY LenProperties, EmptySeq
<1>1. /\ end \in 1 .. Len(s) /\ \A i \in 1 .. end - 1 : s[i] # "nl"
      /\ s[end] = "nl" \/ end = Len(s)
  <2>1. CASE nl = 0
    <3>1. \A i \in 1 .. Len(s) : s[i] # "nl"
      BY <2>1, PositionIs
    <3>2. end = Len(s) /\ \A i \in 1 .. Len(s) - 1 : i \in 1 .. Len(s)
      BY <1>0, <2>1
    <3> QED BY <1>0, <3>1, <3>2
  <2>2. CASE nl # 0
    BY <2>2, PositionIs
  <2> QED BY <2>1, <2>2
<1>2. line = IF "nl" \in Range(got) THEN [response |-> <<>>, rest |-> behind]
             ELSE [response |-> got, rest |-> SubSeq(s, end + 1, Len(s))]
  BY DEF GetLine
<1> HIDE DEF nl, end
<1>3. k \in 0 .. Len(s) /\ k \in 1 .. end /\ k <= 3 /\ (end <= 3 => k = end)
  BY <1>0, <1>1
<1> HIDE DEF k
<1>4. got \in Seq(STRING) /\ Len(got) = k /\ \A i \in 1 .. k : got[i] = s[i]
  BY <1>3, BeginningIs
<1>5. DOMAIN got = 1 .. k
  BY <1>4, LenProperties
<1> HIDE DEF got
<1>6. "nl" \in Range(got) <=> end <= 3 /\ s[end] = "nl"
  <2>1. "nl" \in Range(got) <=> \E i \in 1 .. k : s[i] = "nl"
    BY <1>4, <1>5 DEF Range
  <2>2. ASSUME NEW i \in 1 .. k, s[i] = "nl" PROVE end <= 3 /\ s[end] = "nl"
    <3>1. i \notin 1 .. end - 1
      BY <1>1, <2>2
    <3>2. i = end
      BY <1>0, <1>1, <1>3, <3>1
    <3> QED BY <1>0, <1>1, <1>3, <2>2, <3>2
  <2>3. ASSUME end <= 3, s[end] = "nl" PROVE \E i \in 1 .. k : s[i] = "nl"
    BY <1>1, <1>3, <2>3
  <2> QED BY <2>1, <2>2, <2>3
<1> DEFINE understood ==
              \/ end <= 3 /\ s[end] = "nl" /\ line.response = <<>>
              \/ /\ end > 3 \/ s[end] # "nl"
                 /\ line.response = SubSeq(s, 1, IF end < 3 THEN end ELSE 3)
<1> HIDE DEF line
<1>7. ASSUME end <= 3, s[end] = "nl"
      PROVE  line.rest = SubSeq(s, end + 1, Len(s)) /\ understood
  <2>1. line = [response |-> <<>>, rest |-> behind]
    BY <1>2, <1>6, <1>7
  <2>2. line.response = <<>> /\ line.rest = behind
    BY <2>1
  <2>3. behind = SubSeq(s, end + 1, Len(s))
    BY <1>3, <1>4, <1>7
  <2> QED BY <1>7, <2>2, <2>3
<1>8. ASSUME ~ (end <= 3 /\ s[end] = "nl")
      PROVE  line.rest = SubSeq(s, end + 1, Len(s)) /\ understood
  <2> DEFINE rest == SubSeq(s, end + 1, Len(s))
  <2>1. line = [response |-> got, rest |-> rest]
    BY <1>2, <1>6, <1>8
  <2> HIDE DEF rest
  <2>2. line.response = got /\ line.rest = rest
    BY <2>1
  <2>3. end > 3 \/ s[end] # "nl"
    BY <1>1, <1>8
  <2> QED BY <2>2, <2>3 DEF got, k, rest
<1>9. line.rest = SubSeq(s, end + 1, Len(s)) /\ understood
  BY <1>7, <1>8
<1> QED BY <1>1, <1>9 DEF line

\* How much has been read.
Read == Len(typed) - Len(stdin)

\* Neither answer begins at i.
Undecided(i) == ~ Begins(i, <<"y", "e", "s">>) /\ ~ Refusal(i)

\* A line began with "yes", and no line before it with "no".
Accepts ==
    \E i \in 1 .. Len(typed) :
        /\ Begins(i, <<"y", "e", "s">>)
        /\ \A j \in 1 .. i - 1 : ~ Refusal(j)

\* What is left begins with a line, and no line before was an answer.
LinesLeft ==
    /\ stdin \in Seq(STRING) /\ Len(stdin) <= Len(typed)
    /\ \A i \in 1 .. Len(stdin) : stdin[i] = typed[Read + i]
    /\ stdin = <<>> \/ Read = 0 \/ typed[Read] = "nl"
    /\ \A i \in 1 .. Read : Undecided(i)

\* The stages in which an answer of the user counts.
Talking == {"dialogue", "update", "refused"}

\* The answer that will be, or was, taken is the first one typed.
DialogueInv ==
    /\ typed \in Seq(STRING) /\ strayed \in BOOLEAN
    /\ stage \notin Talking => typed = <<>>
    /\ stage = "dialogue" /\ ~ strayed => LinesLeft
    /\ stage = "update" /\ ~ strayed => Accepts
    /\ stage = "refused" /\ ~ strayed /\ typed # <<>> => ~ Accepts

\* One line is understood: as an answer if it is the first that is one.
LEMMA OneLine ==
    ASSUME typed \in Seq(STRING), LinesLeft, stdin # <<>>, NEW end \in 1 .. Len(stdin),
           \A i \in 1 .. end - 1 : stdin[i] # "nl",
           stdin[end] = "nl" \/ end = Len(stdin),
           NEW response,
           \/ end <= 3 /\ stdin[end] = "nl" /\ response = <<>>
           \/ /\ end > 3 \/ stdin[end] # "nl"
              /\ response = SubSeq(stdin, 1, IF end < 3 THEN end ELSE 3)
    PROVE  /\ IsYes(response) => Accepts
           /\ IsNo(response) => ~ Accepts
           /\ ~ IsYes(response) /\ ~ IsNo(response) => \A i \in 1 .. Read + end : Undecided(i)
<1> DEFINE k == Read
<1>0. /\ stdin \in Seq(STRING) /\ Len(stdin) <= Len(typed)
      /\ k = 0 \/ typed[k] = "nl"
      /\ \A i \in 1 .. k : Undecided(i)
  BY DEF LinesLeft
<1>1. /\ Len(typed) \in Nat /\ Len(stdin) \in Nat /\ k \in Nat /\ k + Len(stdin) = Len(typed)
      /\ end \in Nat /\ k + end \in 1 .. Len(typed) /\ k + 1 \in 1 .. Len(typed)
  <2>1. Len(typed) \in Nat /\ Len(stdin) \in Nat
    BY <1>0, LenProperties
  <2> QED BY <1>0, <2>1 DEF Read
<1>2. \A i \in 1 .. Len(stdin) : stdin[i] = typed[k + i]
  BY DEF LinesLeft
<1> HIDE DEF k
<1>3. /\ stdin[1] = typed[k + 1]
      /\ 2 <= Len(stdin) => stdin[2] = typed[(k + 1) + 1]
      /\ 3 <= Len(stdin) => stdin[3] = typed[(k + 1) + 2]
  <2>1. 1 \in 1 .. Len(stdin) /\ (k + 1) + 1 = k + 2 /\ (k + 1) + 2 = k + 3
    BY <1>1
  <2>2. /\ 2 <= Len(stdin) => 2 \in 1 .. Len(stdin)
        /\ 3 <= Len(stdin) => 3 \in 1 .. Len(stdin)
    BY <1>1
  <2> QED BY <1>2, <2>1, <2>2
<1>4. k + 1 = 1 \/ typed[(k + 1) - 1] = "nl"
  <2>1. k = 0 => k + 1 = 1
    OBVIOUS
  <2>2. (k + 1) - 1 = k
    BY <1>1
  <2> QED BY <1>0, <2>1, <2>2
<1>5. /\ Begins(k + 1, <<"y", "e", "s">>) <=>
            /\ 3 <= Len(stdin) /\ stdin[1] = "y" /\ stdin[2] = "e" /\ stdin[3] = "s"
      /\ Begins(k + 1, <<"n", "o">>) <=>
            /\ 2 <= Len(stdin) /\ stdin[1] = "n" /\ stdin[2] = "o"
  <2>1. /\ (k + 1) + 2 <= Len(typed) <=> 3 <= Len(stdin)
        /\ (k + 1) + 1 <= Len(typed) <=> 2 <= Len(stdin)
    BY <1>1
  <2> DEFINE m == k + 1
  <2>2. m \in 1 .. Len(typed)
    BY <1>1
  <2> HIDE DEF m
  <2>3. /\ Begins(m, <<"y", "e", "s">>) <=>
             /\ m = 1 \/ typed[m - 1] = "nl"
             /\ m + 2 <= Len(typed)
             /\ typed[m] = "y" /\ typed[m + 1] = "e" /\ typed[m + 2] = "s"
        /\ Begins(m, <<"n", "o">>) <=>
             /\ m = 1 \/ typed[m - 1] = "nl"
             /\ m + 1 <= Len(typed)
             /\ typed[m] = "n" /\ typed[m + 1] = "o"
    BY <2>2, BeginsIs
  <2> QED BY <1>3, <1>4, <2>1, <2>3 DEF m
<1>6. Refusal(k + 1) <=>
        /\ 2 <= Len(stdin) /\ stdin[1] = "n" /\ stdin[2] = "o"
        /\ Len(stdin) = 2 \/ stdin[3] # "nl"
  <2>1. /\ (k + 1) + 1 = Len(typed) <=> Len(stdin) = 2
        /\ 2 <= Len(stdin) /\ Len(stdin) # 2 => 3 <= Len(stdin)
    <3>1. Len(stdin) \in Nat /\ k \in Nat /\ Len(typed) = k + Len(stdin)
      BY <1>1
    <3>2. ASSUME NEW a \in Nat, NEW b \in Nat
          PROVE  ((a + 1) + 1 = a + b <=> b = 2) /\ (2 <= b /\ b # 2 => 3 <= b)
      OBVIOUS
    <3> QED BY <3>1, <3>2
  <2>2. Refusal(k + 1) <=> /\ Begins(k + 1, <<"n", "o">>)
                           /\ (k + 1) + 1 = Len(typed) \/ typed[(k + 1) + 2] # "nl"
    BY DEF Refusal
  <2> QED BY <1>3, <1>5, <2>1, <2>2
<1>7. ASSUME NEW i \in k + 2 .. k + end PROVE Undecided(i)
  <2>1. /\ i \in 1 .. Len(typed) /\ i # 1 /\ (i - 1) - k \in 1 .. end - 1
        /\ (i - 1) - k \in 1 .. Len(stdin) /\ k + ((i - 1) - k) = i - 1
    BY <1>1
  <2>2. typed[i - 1] # "nl"
    BY <1>2, <2>1
  <2>3. ~ Begins(i, <<"y", "e", "s">>) /\ ~ Begins(i, <<"n", "o">>)
    BY <2>1, <2>2, BeginsIs
  <2> QED BY <2>3 DEF Undecided, Refusal
<1>8. CASE end <= 3 /\ stdin[end] = "nl" /\ response = <<>>
  <2>1. response \in Seq(STRING) /\ Len(response) = 0
    BY <1>8, EmptySeq
  <2>2. ~ IsYes(response) /\ ~ IsNo(response)
    <3>1. (IsYes(response) => Len(response) = 3) /\ (IsNo(response) => Len(response) >= 2)
      BY <2>1, AnswerIs
    <3> QED BY <2>1, <3>1
  <2>3. end = 1 \/ end = 2 \/ end = 3
    BY <1>1, <1>8
  <2>4. Undecided(k + 1)
    <3>1. ~ Begins(k + 1, <<"y", "e", "s">>)
      BY <1>5, <1>8, <2>3
    <3>2. ~ Refusal(k + 1)
      BY <1>1, <1>6, <1>8, <2>3
    <3> QED BY <3>1, <3>2 DEF Undecided
  <2>5. \A i \in 1 .. k + end : Undecided(i)
    <3>1. \A i \in 1 .. k + end : i \in 1 .. k \/ i = k + 1 \/ i \in k + 2 .. k + end
      BY <1>1
    <3> QED BY <1>0, <1>7, <2>4, <3>1
  <2> QED BY <2>2, <2>5 DEF k
<1>9. CASE /\ end > 3 \/ stdin[end] # "nl"
           /\ response = SubSeq(stdin, 1, IF end < 3 THEN end ELSE 3)
  <2> DEFINE n == IF end < 3 THEN end ELSE 3
  <2>1. n \in 0 .. Len(stdin) /\ n \in 1 .. 3 /\ (n < 3 => n = end) /\ (end < 3 => n = end)
        /\ (end >= 3 => n = 3)
    BY <1>1
  <2>2. response = SubSeq(stdin, 1, n)
    BY <1>9
  <2> HIDE DEF n
  <2>3. response \in Seq(STRING) /\ Len(response) = n /\ \A i \in 1 .. n : response[i] = stdin[i]
    BY <1>0, <2>1, <2>2, BeginningIs
  <2>4. /\ response[1] = stdin[1]
        /\ 2 <= n => response[2] = stdin[2]
        /\ 3 <= n => response[3] = stdin[3]
    <3>1. 1 \in 1 .. n /\ (2 <= n => 2 \in 1 .. n) /\ (3 <= n => 3 \in 1 .. n)
      BY <2>1
    <3> QED BY <2>3, <3>1
  <2>5. /\ IsYes(response) <=> n = 3 /\ stdin[1] = "y" /\ stdin[2] = "e" /\ stdin[3] = "s"
        /\ IsNo(response) <=> n >= 2 /\ stdin[1] = "n" /\ stdin[2] = "o"
    <3>1. /\ IsYes(response) <=>
                Len(response) = 3 /\ response[1] = "y" /\ response[2] = "e" /\ response[3] = "s"
          /\ IsNo(response) <=> Len(response) >= 2 /\ response[1] = "n" /\ response[2] = "o"
      BY <2>3, AnswerIs
    <3>2. (n >= 2 => 2 <= n) /\ (n = 3 => 3 <= n /\ 2 <= n)
      BY <2>1
    <3> QED BY <2>3, <2>4, <3>1, <3>2
  <2>6. ASSUME IsYes(response) PROVE Accepts
    <3>1. 3 <= Len(stdin)
      BY <1>1, <2>1, <2>5, <2>6
    <3>2. Begins(k + 1, <<"y", "e", "s">>)
      BY <1>5, <2>5, <2>6, <3>1
    <3>3. \A j \in 1 .. (k + 1) - 1 : j \in 1 .. k
      BY <1>1
    <3>4. \A j \in 1 .. (k + 1) - 1 : ~ Refusal(j)
      BY <1>0, <3>3 DEF Undecided
    <3> QED BY <1>1, <3>2, <3>4 DEF Accepts
  <2>7. ASSUME IsNo(response) PROVE ~ Accepts
    <3>1. Refusal(k + 1)
      <4>1. 2 <= Len(stdin) /\ stdin[1] = "n" /\ stdin[2] = "o"
        BY <1>1, <2>1, <2>5, <2>7
      <4>2. Len(stdin) = 2 \/ stdin[3] # "nl"
        <5>1. CASE end > 3
          <6>1. 3 \in 1 .. end - 1
            BY <1>1, <5>1
          <6> QED BY <6>1
        <5>2. CASE end = 3
          BY <1>9, <5>2
        <5>3. CASE end < 3
          <6>1. end = 2
            BY <1>1, <2>1, <2>5, <2>7, <5>3
          <6>2. stdin[end] # "nl"
            BY <1>9, <6>1
          <6> QED BY <6>1, <6>2
        <5> QED BY <1>1, <5>1, <5>2, <5>3
      <4> QED BY <1>6, <4>1, <4>2
    <3>2. ~ Begins(k + 1, <<"y", "e", "s">>)
      BY <1>5, <2>5, <2>7
    <3>3. ASSUME NEW i \in 1 .. Len(typed), Begins(i, <<"y", "e", "s">>),
                 \A j \in 1 .. i - 1 : ~ Refusal(j)
          PROVE  FALSE
      <4>1. i \notin 1 .. k
        BY <1>0, <3>3 DEF Undecided
      <4>2. i # k + 1
        BY <3>2, <3>3
      <4>3. k + 1 \in 1 .. i - 1
        BY <1>1, <4>1, <4>2
      <4> QED BY <3>1, <3>3, <4>3
    <3> QED BY <3>3 DEF Accepts
  <2>8. ASSUME ~ IsYes(response), ~ IsNo(response)
        PROVE  \A i \in 1 .. k + end : Undecided(i)
    <3>1. ~ Begins(k + 1, <<"y", "e", "s">>)
      <4>1. SUFFICES ASSUME 3 <= Len(stdin), stdin[1] = "y", stdin[2] = "e", stdin[3] = "s"
                     PROVE  FALSE
        BY <1>5
      <4>2. n = 3 \/ n = 1 \/ n = 2
        BY <2>1
      <4>3. n # 3
        BY <2>5, <2>8, <4>1
      <4>4. end = n /\ end # Len(stdin)
        BY <1>1, <2>1, <4>1, <4>2, <4>3
      <4> QED BY <4>1, <4>2, <4>3, <4>4
    <3>2. ~ Begins(k + 1, <<"n", "o">>)
      <4>1. SUFFICES ASSUME 2 <= Len(stdin), stdin[1] = "n", stdin[2] = "o"
                     PROVE  FALSE
        BY <1>5
      <4>2. ~ n >= 2
        BY <2>5, <2>8, <4>1
      <4>3. n = 1 /\ end = 1 /\ end # Len(stdin)
        BY <1>1, <2>1, <4>1, <4>2
      <4> QED BY <4>1, <4>3
    <3>3. Undecided(k + 1)
      BY <3>1, <3>2 DEF Undecided, Refusal
    <3>4. \A i \in 1 .. k + end : i \in 1 .. k \/ i = k + 1 \/ i \in k + 2 .. k + end
      BY <1>1
    <3> QED BY <1>0, <1>7, <3>3, <3>4
  <2> QED BY <2>6, <2>7, <2>8 DEF k
<1> QED BY <1>8, <1>9

\* The answers in a text do not depend on anything else.
LEMMA SameText ==
    ASSUME UNCHANGED typed
    PROVE  (Accepts' <=> Accepts) /\ \A i : Undecided(i)' <=> Undecided(i)
  BY DEF Accepts, Undecided, Begins, Refusal

\* One turn of the loop.
LEMMA DialogueTurn ==
    ASSUME DialogueInv, Dialogue
    PROVE  DialogueInv'
<1>0. /\ typed \in Seq(STRING) /\ strayed \in BOOLEAN /\ stage = "dialogue" /\ typed' = typed
      /\ ~ strayed => LinesLeft
  BY DEF DialogueInv, Dialogue
<1>1. CASE stdin = <<>>
  <2>1. stage' = "refused" /\ UNCHANGED <<stdin, strayed>>
    BY <1>1 DEF Dialogue
  <2>2. ASSUME ~ strayed PROVE ~ Accepts
    <3>1. Len(typed) \in Nat /\ Read = Len(typed)
      BY <1>0, <1>1, LenProperties DEF Read
    <3>2. \A i \in 1 .. Len(typed) : Undecided(i)
      BY <1>0, <2>2, <3>1 DEF LinesLeft
    <3> QED BY <3>2 DEF Undecided, Accepts
  <2> QED BY <1>0, <2>1, <2>2, SameText DEF DialogueInv, Talking
<1>2. CASE stdin # <<>>
  <2>1. PICK stray \in BOOLEAN :
            LET line == GetLine(stdin, stray)
            IN  /\ stdin' = line.rest
                /\ strayed' = (strayed \/ stray)
                /\ stage' = IF IsYes(line.response) THEN "update"
                            ELSE IF IsNo(line.response) THEN "refused" ELSE stage
    BY <1>2 DEF Dialogue
  <2>2. strayed' \in BOOLEAN /\ stage' \in Talking
    BY <1>0, <2>1 DEF Talking
  <2>3. CASE strayed'
    BY <1>0, <2>2, <2>3 DEF DialogueInv
  <2>4. CASE ~ strayed'
    <3>1. ~ strayed /\ stray = FALSE
      BY <1>0, <2>1, <2>4
    <3> DEFINE line == GetLine(stdin, FALSE)
    <3>2. /\ stdin' = line.rest
          /\ stage' = IF IsYes(line.response) THEN "update"
                      ELSE IF IsNo(line.response) THEN "refused" ELSE "dialogue"
      BY <1>0, <2>1, <3>1
    <3>3. LinesLeft /\ stdin \in Seq(STRING)
      BY <1>0, <3>1 DEF LinesLeft
    <3>4. PICK end \in 1 .. Len(stdin) :
            /\ \A i \in 1 .. end - 1 : stdin[i] # "nl"
            /\ stdin[end] = "nl" \/ end = Len(stdin)
            /\ line.rest = SubSeq(stdin, end + 1, Len(stdin))
            /\ \/ end <= 3 /\ stdin[end] = "nl" /\ line.response = <<>>
               \/ /\ end > 3 \/ stdin[end] # "nl"
                  /\ line.response = SubSeq(stdin, 1, IF end < 3 THEN end ELSE 3)
      BY <1>2, <3>3, GetLineGives
    <3> HIDE DEF line
    <3>5. /\ IsYes(line.response) => Accepts
          /\ IsNo(line.response) => ~ Accepts
          /\ ~ IsYes(line.response) /\ ~ IsNo(line.response) =>
                \A i \in 1 .. Read + end : Undecided(i)
      <4> DEFINE response == line.response
      <4>1. \/ end <= 3 /\ stdin[end] = "nl" /\ response = <<>>
            \/ /\ end > 3 \/ stdin[end] # "nl"
               /\ response = SubSeq(stdin, 1, IF end < 3 THEN end ELSE 3)
        BY <3>4
      <4> HIDE DEF response
      <4>2. /\ IsYes(response) => Accepts
            /\ IsNo(response) => ~ Accepts
            /\ ~ IsYes(response) /\ ~ IsNo(response) =>
                \A i \in 1 .. Read + end : Undecided(i)
        BY <1>0, <1>2, <3>3, <3>4, <4>1, OneLine
      <4> QED BY <4>2 DEF response
    <3>6. CASE IsYes(line.response)
      <4>1. stage' = "update" /\ Accepts'
        BY <1>0, <3>2, <3>5, <3>6, SameText
      <4> QED BY <1>0, <2>2, <4>1 DEF DialogueInv
    <3>7. CASE ~ IsYes(line.response) /\ IsNo(line.response)
      <4>1. stage' = "refused" /\ ~ Accepts'
        BY <1>0, <3>2, <3>5, <3>7, SameText
      <4> QED BY <1>0, <2>2, <4>1 DEF DialogueInv
    <3>8. CASE ~ IsYes(line.response) /\ ~ IsNo(line.response)
      <4>1. stage' = "dialogue" /\ stdin' = SubSeq(stdin, end + 1, Len(stdin))
        BY <3>2, <3>4, <3>8
      <4>2. /\ Len(typed) \in Nat /\ Len(stdin) \in Nat /\ Len(stdin) <= Len(typed)
            /\ end \in 0 .. Len(stdin)
        BY <1>0, <3>3, LenProperties DEF LinesLeft
      <4>3. /\ stdin' \in Seq(STRING) /\ Len(stdin') = Len(stdin) - end
            /\ \A i \in 1 .. Len(stdin) - end : stdin'[i] = stdin[end + i]
        BY <3>3, <4>1, <4>2, RestIs
      <4>4. Read' = Read + end /\ Read \in Nat /\ Len(stdin') <= Len(typed')
        BY <1>0, <4>2, <4>3 DEF Read
      <4>5. ASSUME NEW i \in 1 .. Len(stdin') PROVE stdin'[i] = typed'[Read' + i]
        <5>1. /\ i \in 1 .. Len(stdin) - end /\ end + i \in 1 .. Len(stdin)
              /\ Read + (end + i) = (Read + end) + i
          BY <4>2, <4>3, <4>4
        <5>2. stdin[end + i] = typed[Read + (end + i)]
          BY <3>3, <5>1 DEF LinesLeft
        <5> QED BY <1>0, <4>3, <4>4, <5>1, <5>2
      <4>6. stdin' = <<>> \/ typed'[Read'] = "nl"
        <5>1. CASE stdin[end] = "nl"
          <6>1. end \in 1 .. Len(stdin)
            BY <3>4
          <6>2. stdin[end] = typed[Read + end]
            BY <3>3, <6>1 DEF LinesLeft
          <6> QED BY <1>0, <4>4, <5>1, <6>2
        <5>2. CASE end = Len(stdin)
          <6>1. Len(stdin') = 0
            BY <4>2, <4>3, <5>2
          <6> QED BY <4>3, <6>1, EmptySeq
        <5> QED BY <3>4, <5>1, <5>2
      <4>7. \A i \in 1 .. Read' : Undecided(i)'
        BY <1>0, <3>5, <3>8, <4>4, SameText
      <4>8. LinesLeft'
        BY <4>3, <4>4, <4>5, <4>6, <4>7 DEF LinesLeft
      <4> QED BY <1>0, <2>2, <4>1, <4>8 DEF DialogueInv, Talking
    <3> QED BY <3>6, <3>7, <3>8
  <2> QED BY <2>3, <2>4
<1> QED BY <1>1, <1>2

\* Every step keeps what is known of the dialogue.
LEMMA DialogueStep ==
    ASSUME DialogueInv, StartMoves
    PROVE  DialogueInv'
<1>0. typed \in Seq(STRING) /\ strayed \in BOOLEAN /\ (stage \notin Talking => typed = <<>>)
  BY DEF DialogueInv
<1>1. ASSUME UNCHANGED <<typed, strayed>>, stage \notin Talking,
             stage' \notin {"dialogue", "update"}
      PROVE  DialogueInv'
  <2>1. typed' = <<>>
    BY <1>0, <1>1
  <2> QED BY <1>0, <1>1, <2>1 DEF DialogueInv
<1>2. CASE ProcessArg \/ CheckOptions \/ Connect \/ FuseMain \/ Unmount
  <2>1. UNCHANGED <<typed, strayed>>
    BY <1>2 DEF ProcessArg, CheckOptions, Connect, FuseMain, Unmount, dialogue
  <2>2. stage \in {"args", "connect", "mounting", "run"}
    BY <1>2 DEF ProcessArg, CheckOptions, Connect, FuseMain, Unmount
  <2>3. stage' \in {"args", "connect", "verify", "run", "destroy", "exit"}
    BY <1>2 DEF ProcessArg, CheckOptions, Connect, FuseMain, Unmount, Exit
  <2> QED BY <1>1, <2>1, <2>2, <2>3 DEF Talking
<1>3. CASE Acquire \/ Release
  <2>1. UNCHANGED <<typed, strayed>>
    BY <1>3 DEF Acquire, Release, dialogue
  <2>2. stage \in {"construct", "unwind", "destroy"}
    BY <1>3 DEF Acquire, Release
  <2>3. stage' \notin {"dialogue", "update"}
    BY <1>3 DEF Acquire, Release, Exit
  <2> QED BY <1>1, <2>1, <2>2, <2>3 DEF Talking
<1>4. CASE \E ok \in BOOLEAN : Authorized(ok)
  <2>1. UNCHANGED <<typed, strayed>> /\ stage = "auth" /\ stage' \in {"construct", "refused"}
    BY <1>4 DEF Authorized, dialogue
  <2> QED BY <1>1, <2>1 DEF Talking
<1>5. CASE UpdateKnownHosts \/ Disconnect
  <2>1. typed' = <<>> /\ strayed' = FALSE /\ stage' \notin {"dialogue", "update"}
    BY <1>5 DEF UpdateKnownHosts, Disconnect, Forgotten, Exit
  <2>2. typed' \in Seq(STRING)
    BY <2>1, EmptySeq
  <2> QED BY <2>1, <2>2 DEF DialogueInv
<1>6. CASE AskServer
  <2>1. CASE stage' = "auth" /\ UNCHANGED <<stdin, typed>>
    <3>1. UNCHANGED strayed /\ stage = "verify"
      BY <1>6 DEF AskServer
    <3> QED BY <1>1, <2>1, <3>1 DEF Talking
  <2>2. CASE stage' = "dialogue" /\ stdin' \in Typed /\ typed' = stdin'
    <3>1. strayed' \in BOOLEAN
      BY <1>0, <1>6 DEF AskServer
    <3>2. typed' \in Seq(STRING)
      BY <2>2, StartAssumption
    <3>3. Len(typed') \in Nat /\ Read' = 0
      BY <2>2, <3>2, LenProperties DEF Read
    <3>4. \A i \in 1 .. Len(stdin') : stdin'[i] = typed'[Read' + i]
      BY <2>2, <3>3
    <3>5. LinesLeft'
      BY <2>2, <3>2, <3>3, <3>4 DEF LinesLeft
    <3> QED BY <2>2, <3>1, <3>2, <3>5 DEF DialogueInv, Talking
  <2> QED BY <1>6, <2>1, <2>2 DEF AskServer
<1> QED BY <1>2, <1>3, <1>4, <1>5, <1>6, DialogueTurn DEF StartMoves

\* What is checked of the dialogue follows.
LEMMA DialogueProperties ==
    ASSUME DialogueInv
    PROVE  AnswerDecides
<1>1. stage = "update" /\ ~ strayed =>
        \E i \in 1 .. Len(typed) : /\ Begins(i, <<"y", "e", "s">>)
                                   /\ \A j \in 1 .. i - 1 : ~ Refusal(j)
  BY DEF DialogueInv, Accepts
<1>2. ASSUME stage = "refused", ~ strayed, typed # <<>>,
             NEW i \in 1 .. Len(typed), Begins(i, <<"y", "e", "s">>)
      PROVE  \E j \in 1 .. i - 1 : Begins(j, <<"n", "o">>)
  <2>1. \E j \in 1 .. i - 1 : Refusal(j)
    BY <1>2 DEF DialogueInv, Accepts
  <2> QED BY <2>1 DEF Refusal
<1> QED BY <1>1, <1>2 DEF AnswerDecides

-----------------------------------------------------------------------------
(* The program around the filesystem as a whole *)

\* The inductive invariant of the program around the filesystem.
StartInv == HeldInv /\ ArgsInv /\ DialogueInv

\* It holds when main() begins.
LEMMA StartInitially ==
    ASSUME StartInit
    PROVE  StartInv
<1>1. HeldInv
  BY DEF StartInit, HeldInv, Early, Connected, Layered
<1>2. ArgsInv
  <2>1. opts \in sftfs_options /\ opts.path = None /\ opts.target_buffer = None /\ opts.port = 22
    <3>1. None \in CStr /\ 22 \in PortRange /\ opts = NoOpts
      BY DEF CStr, PortRange, StartInit
    <3> QED BY <3>1 DEF NoOpts, sftfs_options
  <2>2. argv \in Seq(Arg) /\ given = argv
    BY StartAssumption DEF StartInit
  <2>3. Len(given) \in Nat /\ Seen = 0
    BY <2>2, LenProperties DEF Seen
  <2>4. TargetSeen(Seen) /\ PortSeen(Seen)
    BY <2>1, <2>3 DEF TargetSeen, PortSeen
  <2>5. \A i \in 1 .. Len(argv) : argv[i] = given[Seen + i]
    BY <2>2, <2>3
  <2>6. ArgsLeft
    BY <2>2, <2>3, <2>4, <2>5 DEF ArgsLeft
  <2>7. stage = "args" /\ status # "crash"
    BY StartAssumption DEF StartInit, Reason
  <2> QED BY <2>1, <2>6, <2>7 DEF ArgsInv
<1>3. DialogueInv
  BY EmptySeq DEF StartInit, DialogueInv, Talking
<1> QED BY <1>1, <1>2, <1>3 DEF StartInv

\* Every step keeps it.
LEMMA StartStays ==
    ASSUME StartInv, StartMoves
    PROVE  StartInv'
  BY HeldStep, ArgsStep, DialogueStep DEF StartInv

\* A step of nobody changes nothing.
LEMMA StartStutter ==
    ASSUME StartInv, UNCHANGED startVars
    PROVE  StartInv'
<1>1. UNCHANGED <<stage, argv, given, opts, stdin, typed, strayed, build, held, status>>
  BY DEF startVars
<1>2. HeldInv'
  <2>1. Layers' = Layers
    BY <1>1 DEF Layers
  <2>2. (Stacked' <=> Stacked) /\ (LeftBehind' <=> LeftBehind)
    BY <1>1, <2>1 DEF Stacked, LeftBehind, Got
  <2>3. \A n : Got(n)' = Got(n)
    BY <2>1 DEF Got
  <2> QED BY <1>1, <2>1, <2>2, <2>3 DEF StartInv, HeldInv
<1>3. ArgsInv'
  <2>1. Seen' = Seen
    BY <1>1 DEF Seen
  <2>2. TargetSeen(Seen)' = TargetSeen(Seen) /\ PortSeen(Seen)' = PortSeen(Seen)
    BY <1>1, <2>1 DEF TargetSeen, PortSeen, FirstTarget, TakenApart
  <2>3. ArgsLeft' <=> ArgsLeft
    BY <1>1, <2>1, <2>2 DEF ArgsLeft
  <2> QED BY <1>1, <2>3 DEF StartInv, ArgsInv, FirstTarget
<1>4. DialogueInv'
  <2>1. Read' = Read
    BY <1>1 DEF Read
  <2>2. LinesLeft' <=> LinesLeft
    BY <1>1, <2>1, SameText DEF LinesLeft
  <2> QED BY <1>1, <2>2, SameText DEF StartInv, DialogueInv
<1> QED BY <1>2, <1>3, <1>4 DEF StartInv

\* What the runs check follows.
LEMMA StartProperties ==
    ASSUME StartInv
    PROVE  StartTypeOK /\ AllReleased /\ ConnectsAsAsked /\ AnswerDecides
<1>1. opts \in sftfs_options
  BY DEF StartInv, ArgsInv
<1> QED BY <1>1, HeldProperties, ArgsProperties, DialogueProperties DEF StartInv, StartTypeOK

-----------------------------------------------------------------------------
(* The password prompt.  The invariant says, for every place the main thread can   *)
(* be at, which signals are covered and what a signal that arrives there finds.    *)

\* The places of the main thread.
Places == {"idle", "start", "password", "lock", "nodump", "cover_begin", "cover",
           "ask", "use", "wipe", "uncover", "undump", "unlock", "free_password",
           "free_prompt", "over"}

\* Between ssh_getpass() and the wiping of the password.
Asking == {"ask", "use", "wipe"}

\* Where the dumpable flag is cleared.
Cleared == {"cover_begin", "cover", "uncover", "undump"} \cup Asking

\* ongoing_prompt is set.
Ongoing == main \in {"cover", "uncover"} \/ (handling /\ main \in Asking)

\* The handler of s is the erasing one, or was put back by it.
Covered(s) ==
    /\ s \notin Safe
    /\ \/ main = "cover" /\ s < sig
       \/ main \in Asking /\ handling
       \/ main = "uncover" /\ sig <= s /\ s < upto

\* The prompt lives from its allocation to its end.
PromptAlive ==
    /\ main \in Places
    /\ main # "idle" => attempt \in 1 .. Attempts
    /\ (prompt = NoPrompt) <=> (main \in {"idle", "start", "over"})
    /\ prompt # NoPrompt => prompt.id = attempt
    /\ ongoing_prompt = IF Ongoing THEN attempt ELSE NoPrompt
    /\ main \in {"cover_begin", "cover", "uncover"} => handling
    /\ proc.st = "running" => proc.by = 0

\* A password is in the buffer only between ssh_getpass() and its erasure, and
\* then only a covered signal that was handled before has its default action.
PasswordGuarded ==
    /\ (prompt # NoPrompt /\ prompt.password = "typed") => main \in Asking
    /\ \A s \in Signal : Covered(s) /\ disp[s] = "dfl" =>
        s \in prompt.seen /\ (Default[s] = "term" => proc.st = "killed")

\* What is saved, and what is not covered, is what was inherited.
HandlersKept ==
    "covered" \notin lasting =>
        \A s \in Signal :
            IF Covered(s)
            THEN /\ prompt.handlers[s] = Inherited[s]
                 /\ disp[s] # "erase" => disp[s] = Inherited[s]
            ELSE disp[s] = Inherited[s]

\* The locked memory and the dumpable flag.
ResourcesKept ==
    /\ "locked" \notin lasting =>
        (locked => main \in Cleared \cup {"nodump", "unlock"})
    /\ main \in Cleared => prompt.is_dumpable \in 0 .. 2
    /\ "dumpable" \notin lasting =>
        IF main \in Cleared THEN prompt.is_dumpable # 0 ELSE dumpable # 0

\* The inductive invariant of the prompt.
PromptInv ==
    /\ PromptTypeOK
    /\ PromptAlive
    /\ PasswordGuarded
    /\ ErasedInTime
    /\ HandlersKept
    /\ ResourcesKept

-----------------------------------------------------------------------------

\* Storing a password state, the saved flag or a saved handler in the struct
\* leaves a struct, and the other fields as they were.
LEMMA PromptUpdates ==
    ASSUME NEW p \in Prompt
    PROVE  /\ \A w \in {"none", "empty", "typed"} :
                /\ [p EXCEPT !.password = w] \in Prompt
                /\ [p EXCEPT !.password = w].password = w
           /\ \A d \in -1 .. 2 :
                /\ [p EXCEPT !.is_dumpable = d] \in Prompt
                /\ [p EXCEPT !.is_dumpable = d].is_dumpable = d
           /\ \A s \in Signal, h \in Disposition :
                /\ [p EXCEPT !.handlers[s] = h] \in Prompt
                /\ \A t \in Signal : [p EXCEPT !.handlers[s] = h].handlers[t]
                                        = IF t = s THEN h ELSE p.handlers[t]
  BY DEF Prompt

\* The steps that store something in the struct.
LEMMA StructUpdated ==
    ASSUME PromptInv,
           \/ AllocPassword \/ SetNodumpable \/ Cover \/ Type \/ Wipe \/ Uncover
           \/ FreePassword
    PROVE  prompt \in Prompt /\ prompt' \in Prompt
<1>1. prompt \in Prompt
  BY DEF PromptInv, PromptTypeOK, PromptAlive, AllocPassword, SetNodumpable, Cover, Type,
         Wipe, Uncover, FreePassword, Step
<1>2. CASE AllocPassword \/ Type \/ Wipe
  BY <1>1, <1>2, PromptUpdates DEF AllocPassword, Type, Wipe
<1>3. CASE SetNodumpable
  <2>1. PICK was \in {dumpable} \cup (IF May("getdump") THEN {-1} ELSE {}) :
            prompt' = [prompt EXCEPT !.is_dumpable = was]
    BY <1>3 DEF SetNodumpable
  <2>2. was \in -1 .. 2
    BY DEF PromptInv, PromptTypeOK
  <2> QED BY <1>1, <2>1, <2>2, PromptUpdates
<1>4. CASE Cover
  <2>1. CASE prompt' = [prompt EXCEPT !.handlers[sig] = disp[sig]] /\ sig < NSIG
    <3>1. sig \in Signal /\ disp[sig] \in Disposition
      BY <2>1, PromptAssumption DEF PromptInv, PromptTypeOK, Signal
    <3> QED BY <1>1, <2>1, <3>1, PromptUpdates
  <2> QED BY <1>1, <1>4, <2>1 DEF Cover
<1>5. CASE Uncover
  <2>1. CASE prompt' = [prompt EXCEPT !.handlers[sig] = "dfl"] /\ sig < upto
    <3>1. sig \in Signal
      BY <2>1, PromptAssumption DEF PromptInv, PromptTypeOK, Signal
    <3>2. "dfl" \in Disposition
      BY DEF Disposition
    <3> QED BY <1>1, <2>1, <3>1, <3>2, PromptUpdates
  <2> QED BY <1>1, <1>5, <2>1 DEF Uncover
<1>6. CASE FreePassword
  <2>1. prompt' = [prompt EXCEPT !.password = "none"]
    BY <1>1, <1>6 DEF FreePassword, Step, PromptInv, PasswordGuarded, Asking, Prompt,
        PromptAlive
  <2> QED BY <1>1, <2>1, PromptUpdates
<1> QED BY <1>1, <1>2, <1>3, <1>4, <1>5, <1>6

\* Every step of the main thread keeps the invariant: the way into the prompt,
\* the cleanup of every failure on it, the attempt, and the way out.
LEMMA MainThreadStep ==
    ASSUME PromptInv,
           \/ AllocPrompt \/ AllocPassword \/ Lock \/ SetNodumpable \/ CoverBegin \/ Cover
           \/ Type \/ Asked \/ Use \/ Wipe
           \/ Uncover \/ ResetNodumpable \/ Unlock \/ FreePassword \/ FreePrompt
           \/ NextAttempt
    PROVE  PromptInv'
<1> USE PromptAssumption
    DEF Step, May, loop, auth, memory, process, Signal, Disposition, Places, Asking,
        Cleared, Ongoing, Covered, Holds, PromptInv, PromptTypeOK, PromptAlive,
        PasswordGuarded, ErasedInTime, HandlersKept, ResourcesKept
<1>1. CASE AllocPrompt
  <2>1. CASE prompt' = [id |-> attempt, password |-> "none", is_dumpable |-> 0,
                        handlers |-> [s \in Signal |-> "dfl"], seen |-> {}]
             /\ Step("start", "password")
    <3>1. prompt' \in Prompt /\ prompt' # NoPrompt
      BY <2>1 DEF Prompt
    <3>2. prompt'.id = attempt /\ prompt'.password = "none"
      BY <2>1
    <3>3. PromptTypeOK' /\ PromptAlive'
      BY <1>1, <2>1, <3>1, <3>2 DEF AllocPrompt
    <3>4. PasswordGuarded' /\ ErasedInTime'
      BY <1>1, <2>1, <3>2 DEF AllocPrompt
    <3>5. HandlersKept' /\ ResourcesKept'
      BY <1>1, <2>1 DEF AllocPrompt
    <3> QED BY <3>3, <3>4, <3>5
  <2>2. CASE Step("start", "over") /\ UNCHANGED prompt
    BY <1>1, <2>2 DEF AllocPrompt
  <2> QED BY <1>1, <2>1, <2>2 DEF AllocPrompt
<1>2. CASE AllocPassword
  <2>1. prompt \in Prompt /\ prompt' \in Prompt
    BY <1>2, StructUpdated
  <2>2. PromptTypeOK' /\ PromptAlive' /\ ErasedInTime'
    BY <1>2, <2>1 DEF AllocPassword, Prompt
  <2>3. PasswordGuarded' /\ HandlersKept' /\ ResourcesKept'
    BY <1>2, <2>1 DEF AllocPassword, Prompt
  <2> QED BY <2>2, <2>3
<1>3. CASE Lock
  <2>1. PromptTypeOK' /\ PromptAlive' /\ ErasedInTime'
    BY <1>3 DEF Lock
  <2>2. PasswordGuarded' /\ HandlersKept' /\ ResourcesKept'
    BY <1>3 DEF Lock
  <2> QED BY <2>1, <2>2
<1>4. CASE SetNodumpable
  <2>1. prompt \in Prompt /\ prompt' \in Prompt
    BY <1>4, StructUpdated
  <2>2. prompt' # NoPrompt
    BY <2>1
  <2>3. PromptTypeOK'
    BY <1>4, <2>1 DEF SetNodumpable
  <2>4. PromptAlive'
    BY <1>4, <2>1, <2>2 DEF SetNodumpable, Prompt
  <2>5. PasswordGuarded'
    BY <1>4, <2>1, <2>2 DEF SetNodumpable, Prompt
  <2>6. ErasedInTime'
    BY <1>4, <2>1, <2>2 DEF SetNodumpable, Prompt
  <2>7. HandlersKept'
    BY <1>4, <2>1, <2>2 DEF SetNodumpable, Prompt
  <2>8. ResourcesKept'
    BY <1>4, <2>1, <2>2 DEF SetNodumpable, Prompt
  <2> QED BY <2>3, <2>4, <2>5, <2>6, <2>7, <2>8
<1>5. CASE CoverBegin
  BY <1>5 DEF CoverBegin
<1>6. CASE Cover
  <2>1. prompt \in Prompt /\ prompt' \in Prompt
    BY <1>6, StructUpdated
  <2>2. prompt' # NoPrompt
    BY <2>1
  <2>3. PromptTypeOK'
    BY <1>6, <2>1 DEF Cover, Skipped, CoverFailed
  <2>4. PromptAlive'
    BY <1>6, <2>1, <2>2 DEF Cover, Skipped, CoverFailed, Prompt
  <2>5. PasswordGuarded'
    <3>1. prompt'.password = prompt.password /\ prompt'.seen = prompt.seen
      BY <1>6, <2>1 DEF Cover, Skipped, CoverFailed, Prompt
    <3>2. ASSUME NEW s \in Signal, Covered(s)', disp'[s] = "dfl"
          PROVE  Covered(s) /\ disp[s] = "dfl"
      BY <1>6, <3>2 DEF Cover, Skipped, CoverFailed
    <3> QED BY <1>6, <2>1, <2>2, <3>1, <3>2 DEF Cover, Skipped, CoverFailed
  <2>6. ErasedInTime'
    BY <1>6, <2>1, <2>2 DEF Cover, Skipped, CoverFailed, Prompt
  <2>7. HandlersKept'
    BY <1>6, <2>1, <2>2 DEF Cover, Skipped, CoverFailed, Prompt
  <2>8. ResourcesKept'
    BY <1>6, <2>1, <2>2 DEF Cover, Skipped, CoverFailed, Prompt
  <2> QED BY <2>3, <2>4, <2>5, <2>6, <2>7, <2>8
<1>7. CASE Type
  <2>1. prompt \in Prompt /\ prompt' \in Prompt
    BY <1>7, StructUpdated
  <2>2. PromptTypeOK' /\ PromptAlive'
    BY <1>7, <2>1 DEF Type, Prompt
  <2>4. ErasedInTime'
    BY <1>7, <2>1 DEF Type, Prompt
  <2>3. PasswordGuarded' /\ HandlersKept' /\ ResourcesKept'
    BY <1>7, <2>1 DEF Type, Prompt
  <2> QED BY <2>2, <2>3, <2>4
<1>8. CASE Asked
  BY <1>8 DEF Asked
<1>9. CASE Use
  BY <1>9 DEF Use
<1>10. CASE Wipe
  <2>1. prompt \in Prompt /\ prompt' \in Prompt
    BY <1>10, StructUpdated
  <2>2. PromptTypeOK'
    BY <1>10, <2>1 DEF Wipe
  <2>5. PromptAlive'
    BY <1>10, <2>1 DEF Wipe, Prompt
  <2>4. ErasedInTime'
    BY <1>10, <2>1 DEF Wipe, Prompt
  <2>3. PasswordGuarded' /\ HandlersKept' /\ ResourcesKept'
    BY <1>10, <2>1 DEF Wipe, Prompt
  <2> QED BY <2>2, <2>3, <2>4, <2>5
<1>11. CASE Uncover
  <2>1. prompt \in Prompt /\ prompt' \in Prompt
    BY <1>11, StructUpdated
  <2>2. prompt' # NoPrompt
    BY <2>1
  <2>3. PromptTypeOK'
    <3>1. \A s \in Signal : prompt.handlers[s] \in Disposition
      BY <2>1 DEF Prompt
    <3>2. disp' \in [Signal -> Disposition]
      BY <1>11, <3>1 DEF Uncover
    <3>3. /\ sig' \in 1 .. NSIG /\ upto' \in 1 .. NSIG
          /\ main' \in {"uncover", "undump"}
      BY SMTT(20), <1>11 DEF Uncover
    <3> QED BY SMTT(20), <1>11, <2>1, <3>2, <3>3 DEF Uncover
  <2>4. PromptAlive'
    BY <1>11, <2>1, <2>2 DEF Uncover, Skipped, Prompt
  <2>5. PasswordGuarded'
    <3>1. prompt'.password = prompt.password /\ prompt'.seen = prompt.seen
      BY <1>11, <2>1 DEF Uncover, Skipped, Prompt
    <3>2. ASSUME NEW s \in Signal, Covered(s)', disp'[s] = "dfl"
          PROVE  Covered(s) /\ disp[s] = "dfl"
      BY <1>11, <3>2 DEF Uncover, Skipped
    <3>3. prompt # NoPrompt /\ main \notin Asking
      BY <1>11 DEF Uncover
    <3>4. prompt'.password # "typed"
      BY <3>1, <3>3
    <3>5. proc' = proc
      BY <1>11 DEF Uncover
    <3> QED BY <3>1, <3>2, <3>4, <3>5
  <2>6. ErasedInTime'
    BY <1>11, <2>1, <2>2 DEF Uncover, Skipped, Prompt
  <2>7. HandlersKept'
    <3>1. CASE /\ sig < upto /\ main' = main /\ UNCHANGED <<upto, lasting>>
               /\ disp' = IF Skipped(sig) THEN disp
                          ELSE [disp EXCEPT ![sig] = prompt.handlers[sig]]
               /\ prompt' = IF Skipped(sig) THEN prompt
                            ELSE [prompt EXCEPT !.handlers[sig] = "dfl"]
               /\ sig' = sig + 1
      <4>1. CASE Skipped(sig)
        BY <1>11, <3>1, <4>1 DEF Uncover, Skipped
      <4>2. CASE ~ Skipped(sig)
        <5>1. \A s \in Signal : s # sig => /\ prompt'.handlers[s] = prompt.handlers[s]
                                          /\ disp'[s] = disp[s]
          BY <2>1, <3>1, <4>2 DEF Prompt
        <5>2. sig \in Signal => disp'[sig] = prompt.handlers[sig]
          BY <3>1, <4>2
        <5> QED BY <1>11, <3>1, <4>2, <5>1, <5>2 DEF Uncover, Skipped
      <4> QED BY <4>1, <4>2
    <3>2. CASE /\ sig = upto \/ "covered" \in lasting'
               /\ main' = "undump" /\ disp' = disp /\ (sig = upto => lasting' = lasting)
      BY <1>11, <3>2 DEF Uncover, Skipped
    <3> QED BY <1>11, <3>1, <3>2 DEF Uncover
  <2>8. ResourcesKept'
    BY <1>11, <2>1, <2>2 DEF Uncover, Skipped, Prompt
  <2> QED BY <2>3, <2>4, <2>5, <2>6, <2>7, <2>8
<1>12. CASE ResetNodumpable
  <2>1. PromptTypeOK' /\ PromptAlive' /\ ErasedInTime'
    BY <1>12 DEF ResetNodumpable
  <2>2. PasswordGuarded' /\ HandlersKept' /\ ResourcesKept'
    BY <1>12 DEF ResetNodumpable
  <2> QED BY <2>1, <2>2
<1>13. CASE Unlock
  BY <1>13 DEF Unlock
<1>14. CASE FreePassword
  <2>1. prompt \in Prompt /\ prompt' \in Prompt
    BY <1>14, StructUpdated
  <2>2. PromptTypeOK' /\ PromptAlive' /\ ErasedInTime'
    BY <1>14, <2>1 DEF FreePassword, Prompt
  <2>3. PasswordGuarded' /\ HandlersKept' /\ ResourcesKept'
    BY <1>14, <2>1 DEF FreePassword, Prompt
  <2> QED BY <2>2, <2>3
<1>15. CASE FreePrompt
  BY <1>15 DEF FreePrompt
<1>16. CASE NextAttempt
  BY <1>16 DEF NextAttempt, Attempt
<1> QED BY <1>1, <1>2, <1>3, <1>4, <1>5, <1>6, <1>7, <1>8, <1>9, <1>10, <1>11, <1>12, <1>13, <1>14, <1>15, <1>16

\* What the erasing handler does to the process: a handler of somebody else's
\* is called and stays covered, the others come back.
LEMMA HandlerPasses ==
    ASSUME PromptInv, NEW s \in Signal, Deliver(s), disp[s] = "erase",
           ongoing_prompt # NoPrompt
    PROVE  /\ disp' \in [Signal -> Disposition]
           /\ \A t \in Signal : t # s => disp'[t] = disp[t]
           /\ disp'[s] \in {"erase", prompt.handlers[s]}
           /\ proc' \in [st : {"running", "stopped", "killed"}, by : 0 .. NSIG - 1]
           /\ proc'.st = "running" => proc'.by = 0
           /\ disp'[s] = "dfl" /\ Default[s] = "term" => proc'.st = "killed"
<1> DEFINE saved == prompt.handlers[s]
<1>1. prompt \in Prompt
  BY DEF PromptInv, PromptTypeOK, PromptAlive, Ongoing, Asking
<1>2. saved \in {"dfl", "ign", "own", "erase"} /\ disp \in [Signal -> Disposition]
  BY <1>1 DEF PromptInv, PromptTypeOK, Prompt, Disposition
<1>3. /\ proc \in [st : {"running", "stopped", "killed"}, by : 0 .. NSIG - 1]
      /\ proc.st = "running" /\ proc.by = 0
  BY DEF PromptInv, PromptTypeOK, PromptAlive, Deliver
<1>4. s \in 0 .. NSIG - 1 /\ Default[s] \in {"term", "stop", "ignore"}
  BY PromptAssumption DEF Signal
<1>5. CASE saved = "own"
  BY <1>2, <1>3, <1>5 DEF Deliver, ErasingHandler
<1>6. CASE saved = "erase"
  BY <1>2, <1>4, <1>6 DEF Deliver, ErasingHandler
<1>7. CASE saved = "ign"
  BY <1>2, <1>3, <1>7 DEF Deliver, ErasingHandler, Disposition
<1>8. CASE saved = "dfl"
  <2>1. disp' = [disp EXCEPT ![s] = "dfl"] /\ Defaulted(s)
    BY <1>8 DEF Deliver, ErasingHandler
  <2>2. disp' \in [Signal -> Disposition] /\ \A t \in Signal : disp'[t] = IF t = s THEN "dfl" ELSE disp[t]
    BY <1>2, <2>1 DEF Disposition
  <2>3. /\ proc' \in [st : {"running", "stopped", "killed"}, by : 0 .. NSIG - 1]
        /\ proc'.st = "running" => proc'.by = 0
        /\ Default[s] = "term" => proc'.st = "killed"
    BY <1>3, <1>4, <2>1 DEF Defaulted
  <2> QED BY <1>8, <2>2, <2>3
<1> QED BY <1>2, <1>5, <1>6, <1>7, <1>8

\* The delivery of a signal keeps the invariant, wherever it happens.
LEMMA SignalStep ==
    ASSUME PromptInv, NEW s \in Signal, Deliver(s)
    PROVE  PromptInv'
<1>0. /\ UNCHANGED <<main, sig, upto, attempt, rc, handling, ongoing_prompt, dumpable,
                     lasting, locked>>
      /\ proc.st = "running"
  BY DEF Deliver, loop, auth
<1>1. ASSUME disp[s] = "erase", ongoing_prompt = NoPrompt
      PROVE  proc' = [st |-> "killed", by |-> s] /\ UNCHANGED <<prompt, disp>>
  BY <1>1 DEF Deliver, ErasingHandler
<1>2. ASSUME disp[s] = "erase", ongoing_prompt # NoPrompt
      PROVE  /\ prompt \in Prompt /\ prompt' \in Prompt
             /\ prompt'.password # "typed" /\ prompt'.password # "leaked"
             /\ prompt'.seen = prompt.seen \cup {s} /\ prompt'.handlers = prompt.handlers
             /\ prompt'.id = prompt.id /\ prompt'.is_dumpable = prompt.is_dumpable
  <2>1. prompt \in Prompt
    BY <1>2 DEF PromptInv, PromptTypeOK, PromptAlive, Ongoing, Asking
  <2>2. prompt' = [prompt EXCEPT !.password = IF @ = "typed" THEN "empty" ELSE @,
                                 !.seen = @ \cup {s}]
    BY <1>2 DEF Deliver, ErasingHandler
  <2> QED BY <2>1, <2>2 DEF Prompt
<1>3. ASSUME disp[s] = "dfl"
      PROVE  /\ UNCHANGED <<prompt, disp>>
             /\ proc' \in [st : {"running", "stopped", "killed"}, by : 0 .. NSIG - 1]
             /\ proc'.st = "running" => proc'.by = 0
             /\ proc'.st # "running" => proc'.by = s
             /\ proc'.st = "killed" => Default[s] = "term"
  BY <1>3, PromptAssumption
  DEF Deliver, Defaulted, PromptInv, PromptTypeOK, PromptAlive, Signal
<1>4. ASSUME disp[s] \in {"ign", "own"}
      PROVE  UNCHANGED <<proc, prompt, disp>>
  BY <1>4 DEF Deliver
<1> USE PromptAssumption
    DEF Signal, Disposition, Places, Asking, Cleared, Ongoing, Covered, Holds, PromptInv,
        PromptTypeOK, PromptAlive, PasswordGuarded, ErasedInTime, HandlersKept, ResourcesKept
<1>5. CASE disp[s] = "erase" /\ ongoing_prompt = NoPrompt
  BY <1>0, <1>1, <1>5
<1>6. CASE disp[s] = "erase" /\ ongoing_prompt # NoPrompt
  <2>1. PromptTypeOK' /\ PromptAlive' /\ ErasedInTime'
    BY <1>0, <1>2, <1>6, HandlerPasses
  <2>2. PasswordGuarded'
    BY <1>0, <1>2, <1>6, HandlerPasses
  <2>3. HandlersKept' /\ ResourcesKept'
    BY <1>0, <1>2, <1>6, HandlerPasses
  <2> QED BY <2>1, <2>2, <2>3
<1>7. CASE disp[s] = "dfl"
  BY <1>0, <1>3, <1>7
<1>8. CASE disp[s] \in {"ign", "own"}
  BY <1>0, <1>4, <1>8
<1> QED BY <1>5, <1>6, <1>7, <1>8

\* What the rest of the program does with the prompt: it calls
\* handle_host_authorization(), and forgets it when it has returned.
LEMMA PromptOutside ==
    /\ PromptInit => PromptInv
    /\ PromptInv /\ AuthorizationBegin => PromptInv'
    /\ PromptForgotten => PromptInv'
    /\ PromptInv /\ UNCHANGED promptVars => PromptInv'
<1>0. Inherited \in [Signal -> Disposition] /\ 1 \in 1 .. NSIG /\ 0 \in 0 .. NSIG - 1
  BY PromptAssumption DEF Disposition
<1>a. ASSUME PromptInit PROVE PromptTypeOK
  <2>1. /\ (sig \in 1 .. NSIG) /\ (upto \in 1 .. NSIG) /\ (attempt \in 0 .. Attempts)
        /\ (dumpable \in 0 .. 2)
    BY <1>0, <1>a, PromptAssumption DEF PromptInit
  <2>2. (disp \in [Signal -> Disposition])
    BY <1>0, <1>a DEF PromptInit
  <2>3. (proc \in [st : {"running", "stopped", "killed"}, by : 0 .. NSIG - 1])
    BY <1>0, <1>a DEF PromptInit, Running
  <2>4. (locked \in BOOLEAN) /\ (handling \in BOOLEAN)
    BY <1>a DEF PromptInit
  <2> QED BY <1>a, <2>1, <2>2, <2>3, <2>4 DEF PromptInit, PromptTypeOK
<1>b. ASSUME PromptForgotten PROVE PromptTypeOK'
  <2>1. /\ (sig \in 1 .. NSIG)' /\ (upto \in 1 .. NSIG)' /\ (attempt \in 0 .. Attempts)'
        /\ (dumpable \in 0 .. 2)'
    BY <1>0, <1>b, PromptAssumption DEF PromptForgotten
  <2>2. (disp \in [Signal -> Disposition])'
    BY <1>0, <1>b DEF PromptForgotten
  <2>3. (proc \in [st : {"running", "stopped", "killed"}, by : 0 .. NSIG - 1])'
    BY <1>0, <1>b DEF PromptForgotten, Running
  <2>4. (locked \in BOOLEAN)' /\ (handling \in BOOLEAN)'
    BY <1>b DEF PromptForgotten
  <2> QED BY <1>b, <2>1, <2>2, <2>3, <2>4 DEF PromptForgotten, PromptTypeOK
<1>1. PromptInit => PromptInv
  <2> SUFFICES ASSUME PromptInit PROVE PromptInv
    OBVIOUS
  <2>1. PromptAlive /\ PasswordGuarded /\ ErasedInTime /\ HandlersKept /\ ResourcesKept
    BY PromptAssumption
    DEF PromptInit, Running, PromptAlive, PasswordGuarded, ErasedInTime, HandlersKept,
      ResourcesKept, Places, Asking, Cleared, Ongoing, Covered, Holds
  <2> QED BY <1>a, <2>1 DEF PromptInv
<1>2. PromptForgotten => PromptInv'
  <2> SUFFICES ASSUME PromptForgotten PROVE PromptInv'
    OBVIOUS
  <2>1. (PromptAlive /\ PasswordGuarded /\ ErasedInTime /\ HandlersKept /\ ResourcesKept)'
    BY PromptAssumption
    DEF PromptForgotten, Running, PromptAlive, PasswordGuarded, ErasedInTime, HandlersKept,
      ResourcesKept, Places, Asking, Cleared, Ongoing, Covered, Holds
  <2> QED BY <1>b, <2>1 DEF PromptInv
<1>3. PromptInv /\ AuthorizationBegin => PromptInv'
  BY PromptAssumption
  DEF AuthorizationBegin, Attempt, loop, memory, process, PromptInv, PromptTypeOK,
      PromptAlive, PasswordGuarded, ErasedInTime, HandlersKept,
      ResourcesKept, Places, Asking, Cleared, Ongoing, Covered, Holds
<1>4. PromptInv /\ UNCHANGED promptVars => PromptInv'
  BY DEF promptVars, loop, auth, memory, process, PromptInv, PromptTypeOK,
      PromptAlive, PasswordGuarded, ErasedInTime, HandlersKept,
      ResourcesKept, Places, Asking, Cleared, Ongoing, Covered, Holds
<1> QED BY <1>1, <1>2, <1>3, <1>4

\* Every step of the main thread and every signal keeps the invariant.
LEMMA PromptStep == PromptInv /\ PromptNext => PromptInv'
<1> SUFFICES ASSUME PromptInv, PromptNext PROVE PromptInv'
  OBVIOUS
<1>1. ASSUME Continue PROVE PromptInv'
  BY <1>1, PromptAssumption
  DEF Continue, Running, loop, auth, memory, process, Signal, Disposition, Places, Asking,
      Cleared, Ongoing, Covered, Holds, PromptInv, PromptTypeOK, PromptAlive,
      PasswordGuarded, ErasedInTime, HandlersKept, ResourcesKept
<1> QED BY <1>1, MainThreadStep, SignalStep DEF PromptNext

\* The invariant implies what the runs check.
LEMMA PromptProperties ==
    PromptInv => PromptTypeOK /\ ErasedInTime /\ HandlerFindsPrompt /\ PromptLeavesNoTrace
<1> SUFFICES ASSUME PromptInv
             PROVE  HandlerFindsPrompt /\ PromptLeavesNoTrace
  BY DEF PromptInv
<1> USE PromptAssumption DEF Ongoing, Covered, PromptInv, PromptTypeOK, PromptAlive
<1>1. HandlerFindsPrompt
  <2>1. ASSUME NEW s \in Signal, disp[s] = "erase", "covered" \notin lasting
        PROVE  ongoing_prompt # NoPrompt
    <3>1. Covered(s)
      BY <2>1 DEF HandlersKept
    <3>2. Ongoing /\ attempt \in 1 .. Attempts
      BY <3>1 DEF Asking
    <3> QED BY <3>2
  <2> QED BY <2>1 DEF HandlerFindsPrompt, Asking
<1>2. PromptLeavesNoTrace
  BY DEF PromptLeavesNoTrace, HandlersKept, ResourcesKept, Asking, Cleared
<1> QED BY <1>1, <1>2
=============================================================================
