------------------------ MODULE CompatibleTagProofs ------------------------
(***************************************************************************)
(* GetCompatibleTag answers with the newest compatible tag, for every set  *)
(* of versions and every order of the tags.                                *)
(***************************************************************************)
EXTENDS CompatibleTag, TLAPS

-----------------------------------------------------------------------------
(* Versions. *)

\* The order of versions is transitive.
LEMMA LTTransitive ==
  ASSUME NEW u \in Version, NEW v \in Version, NEW w \in Version, LT(u, v), LT(v, w)
  PROVE  LT(u, w)
BY DEF Version, LT, PreLT, Release

\* Of two versions one is older or they are the same one.
LEMMA LTTotal ==
  ASSUME NEW u \in Version, NEW v \in Version
  PROVE  LT(u, v) \/ LT(v, u) \/ u = v
<1>1. /\ u = [major |-> u.major, minor |-> u.minor, patch |-> u.patch, pre |-> u.pre]
      /\ v = [major |-> v.major, minor |-> v.minor, patch |-> v.patch, pre |-> v.pre]
  BY DEF Version
<1>2. CASE u.major = v.major /\ u.minor = v.minor /\ u.patch = v.patch /\ u.pre = v.pre
  BY <1>1, <1>2
<1>3. CASE ~ (u.major = v.major /\ u.minor = v.minor /\ u.patch = v.patch /\ u.pre = v.pre)
  BY <1>3 DEF Version, LT, PreLT, Release
<1> QED
  BY <1>2, <1>3

\* No version is older than one that is older than it.
LEMMA LTAsymmetric ==
  ASSUME NEW u \in Version, NEW v \in Version, LT(u, v)
  PROVE  ~ LT(v, u)
BY DEF Version, LT, PreLT, Release

\* Nothing but 0.0.0 itself is a release as old as 0.0.0.
LEMMA ZeroFirst ==
  ASSUME NEW v \in Version \ {Zero}, Release(v)
  PROVE  LT(Zero, v)
<1>1. v = [major |-> v.major, minor |-> v.minor, patch |-> v.patch, pre |-> v.pre]
  BY DEF Version
<1> QED
  BY <1>1 DEF Version, LT, PreLT, Release, Zero

\* Below breakingV and not older than the CLI: on the CLI's line of versions.
LEMMA BreakingBound ==
  ASSUME NEW c \in Version, NEW v \in Version, Release(c), Release(v), ~ LT(v, c)
  PROVE  LT(v, breakingV(c)) <=> SameLine(v, c)
BY DEF Version, LT, PreLT, Release, breakingV, SameLine

-----------------------------------------------------------------------------
(* The loop. *)

\* What getCompatibleTag knows after the tags seen so far.
ReleaseLoop ==
  Release(cliV) =>
    /\ newestV = Zero \/ newestV \in Compatible(cliV)
    /\ \A v \in Compatible(cliV) : newestV # Zero /\ ~ LT(newestV, v)
    /\ hasNew <=> BreakingListed(cliV)

\* What getCompatibleTagForPre knows after the tags seen so far.
PreLoop ==
  ~ Release(cliV) => newestV = IF cliV \in seen THEN cliV ELSE Zero

LoopInv == cliV \in CliVersions => ReleaseLoop /\ PreLoop

\* An answer is what the loop found; without tags there is none.
AnswerInv ==
  /\ pc = "ask" => seen = {} /\ newestV = Zero /\ hasNew = FALSE
  /\ pc = "tags" => cliV \in CliVersions
  /\ pc = "done" /\ cliV \in CliVersions =>
       answer = IF newestV = Zero THEN None ELSE newestV

TagInv == TypeOK /\ LoopInv /\ AnswerInv

-----------------------------------------------------------------------------
\* The types hold, whatever the registry lists.
LEMMA TypeStep == TypeOK /\ [Next]_vars => TypeOK'
<1> SUFFICES ASSUME TypeOK, [Next]_vars PROVE TypeOK'
  OBVIOUS
<1>1. CASE UNCHANGED vars
  BY <1>1 DEF TypeOK, vars
<1>2. CASE DevVersion \/ Fail \/ GetTags \/ Finish
  BY <1>2 DEF TypeOK, DevVersion, Fail, GetTags, Finish, Answer
<1>3. ASSUME NEW v \in Versions, Tag(v) PROVE TypeOK'
  BY <1>3 DEF TypeOK, Tag, Skip, Breaks, Fits, PreSame, PreOlder, PreNewer, Look, Looking
<1> QED
  BY <1>1, <1>2, <1>3 DEF Next

\* A tag that a released CLI looks at leaves the loop's knowledge right.
LEMMA ReleaseLoopStep ==
  ASSUME TypeOK, NEW v \in Versions, cliV \in CliVersions, Release(cliV), ReleaseLoop,
         Skip(v) \/ Breaks(v) \/ Fits(v)
  PROVE  ReleaseLoop'
<1> USE VersionsAssumption
<1>1. /\ v \in Version \ {Zero} /\ cliV \in Version \ {Zero} /\ newestV \in Version
      /\ cliV' = cliV /\ seen' = seen \cup {v} /\ seen \subseteq Version
  BY DEF TypeOK, Skip, Breaks, Fits, Look, Zero, Version
<1>2. /\ newestV = Zero \/ newestV \in Compatible(cliV)
      /\ \A w \in Compatible(cliV) : newestV # Zero /\ ~ LT(newestV, w)
      /\ hasNew <=> BreakingListed(cliV)
  BY DEF ReleaseLoop
<1>3. CASE Skip(v)
  <2>1. Compatible(cliV)' = Compatible(cliV) /\ (BreakingListed(cliV)' <=> BreakingListed(cliV))
    BY <1>1, <1>3, LTAsymmetric DEF Skip, Compatible, BreakingListed
  <2> QED
    BY <1>1, <1>2, <1>3, <2>1 DEF Skip, ReleaseLoop
<1>4. CASE Breaks(v)
  <2>1. ~ SameLine(v, cliV) /\ Release(v) /\ ~ LT(v, cliV)
    BY <1>1, <1>4, BreakingBound DEF Breaks
  <2>2. LT(cliV, v)
    BY <1>1, <2>1, LTTotal DEF SameLine
  <2>3. Compatible(cliV)' = Compatible(cliV) /\ BreakingListed(cliV)'
    BY <1>1, <2>1, <2>2 DEF Compatible, BreakingListed
  <2> QED
    BY <1>1, <1>2, <1>4, <2>3 DEF Breaks, ReleaseLoop
<1>5. CASE Fits(v)
  <2>1. SameLine(v, cliV) /\ Release(v) /\ ~ LT(v, cliV)
    BY <1>1, <1>5, BreakingBound DEF Fits
  <2>2. Compatible(cliV)' = Compatible(cliV) \cup {v}
    BY <1>1, <2>1 DEF Compatible
  <2>3. BreakingListed(cliV)' <=> BreakingListed(cliV)
    BY <1>1, <2>1 DEF BreakingListed
  <2>4. hasNew' = hasNew /\ newestV' = IF LT(newestV, v) THEN v ELSE newestV
    BY <1>5 DEF Fits
  <2>5. LT(newestV, v) => newestV' = v
    BY <2>4
  <2>6. ~ LT(newestV, v) => newestV' = newestV /\ newestV # Zero
    BY <1>1, <2>1, <2>4, ZeroFirst
  <2>7. newestV' \in Compatible(cliV)' /\ newestV' # Zero
    BY <1>1, <1>2, <2>2, <2>5, <2>6
  <2>8. ASSUME NEW w \in Compatible(cliV)' PROVE ~ LT(newestV', w)
    <3>1. w \in Version /\ (w = v \/ w \in Compatible(cliV))
      BY <1>1, <2>2 DEF Compatible
    <3>2. CASE LT(newestV, v)
      <4>1. CASE w = v
        BY <1>1, <2>5, <3>2, <4>1, LTAsymmetric
      <4>2. CASE w \in Compatible(cliV)
        BY <1>1, <1>2, <2>5, <3>1, <3>2, <4>2, LTTransitive
      <4> QED
        BY <3>1, <4>1, <4>2
    <3>3. CASE ~ LT(newestV, v)
      BY <1>2, <2>6, <3>1, <3>3
    <3> QED
      BY <3>2, <3>3
  <2> QED
    BY <1>1, <1>2, <2>3, <2>4, <2>7, <2>8 DEF ReleaseLoop
<1> QED
  BY <1>3, <1>4, <1>5

\* Every step keeps what the loop knows and what the answer is taken from.
LEMMA TagStep == TagInv /\ [Next]_vars => TagInv'
<1> SUFFICES ASSUME TagInv, [Next]_vars PROVE TagInv'
  OBVIOUS
<1> USE VersionsAssumption
<1>1. TypeOK'
  BY TypeStep DEF TagInv
<1>2. CASE UNCHANGED vars
  BY <1>1, <1>2 DEF TagInv, vars, LoopInv, AnswerInv, ReleaseLoop, PreLoop, Compatible, BreakingListed
<1>3. CASE DevVersion \/ Fail \/ GetTags \/ Finish
  <2>1. UNCHANGED <<cliV, newestV, hasNew, seen>>
    BY <1>3 DEF DevVersion, Fail, GetTags, Finish, Answer
  <2>2. LoopInv'
    BY <2>1 DEF TagInv, LoopInv, ReleaseLoop, PreLoop, Compatible, BreakingListed
  <2>3. AnswerInv'
    BY <1>3 DEF TagInv, AnswerInv, DevVersion, Fail, GetTags, Finish, Answer
  <2> QED
    BY <1>1, <2>2, <2>3 DEF TagInv
<1>4. ASSUME NEW v \in Versions, Tag(v) PROVE TagInv'
  <2>1. cliV \in CliVersions /\ pc = "tags" /\ pc' = "tags" /\ cliV' = cliV /\ seen' = seen \cup {v}
    BY <1>4 DEF TagInv, AnswerInv, Tag, Skip, Breaks, Fits, PreSame, PreOlder, PreNewer, Look, Looking
  <2>2. CASE Release(cliV)
    <3>1. Skip(v) \/ Breaks(v) \/ Fits(v)
      BY <1>4, <2>2 DEF Tag, PreSame, PreOlder, PreNewer
    <3>2. ReleaseLoop'
      BY <2>1, <2>2, <3>1, ReleaseLoopStep DEF TagInv, LoopInv
    <3> QED
      BY <1>1, <2>1, <2>2, <3>2 DEF TagInv, LoopInv, AnswerInv, PreLoop
  <2>3. CASE ~ Release(cliV)
    <3>1. newestV' = IF v = cliV THEN cliV ELSE newestV
      <4>1. cliV \in Version /\ v \in Version
        BY <2>1
      <4>2. ~ LT(cliV, cliV)
        BY <4>1, LTAsymmetric
      <4> QED
        BY <1>4, <2>3, <4>1, <4>2 DEF Tag, Skip, Breaks, Fits, PreSame, PreOlder, PreNewer
    <3> QED
      BY <1>1, <2>1, <2>3, <3>1 DEF TagInv, LoopInv, AnswerInv, PreLoop, ReleaseLoop
  <2> QED
    BY <2>2, <2>3
<1> QED
  BY <1>2, <1>3, <1>4 DEF Next

\* TagInv holds in every reachable state.
LEMMA TagInvariant == Spec => []TagInv
<1>1. Init => TagInv
  BY VersionsAssumption DEF Init, TagInv, TypeOK, LoopInv, AnswerInv, ReleaseLoop, PreLoop,
     Compatible, BreakingListed
<1> QED
  BY <1>1, TagStep, PTL DEF Spec

\* Whatever the registry lists and in whatever order, the daemon image is of
\* the newest version compatible with the CLI, and an error says there is none.
THEOREM NewestCompatibleAlways == Spec => []NewestCompatible
<1>1. TagInv => NewestCompatible
  <2> SUFFICES ASSUME TagInv, pc = "done", cliV \in CliVersions
               PROVE  IF answer = None THEN Compatible(cliV) = {}
                      ELSE /\ answer \in Compatible(cliV)
                           /\ \A v \in Compatible(cliV) : ~ LT(answer, v)
    BY DEF NewestCompatible
  <2> USE VersionsAssumption
  <2>1. answer = IF newestV = Zero THEN None ELSE newestV
    BY DEF TagInv, AnswerInv
  <2>2. newestV # Zero => newestV # None
    BY DEF TagInv, TypeOK
  <2>3. CASE Release(cliV)
    BY <2>1, <2>2, <2>3 DEF TagInv, LoopInv, ReleaseLoop
  <2>4. CASE ~ Release(cliV)
    <3>1. cliV # Zero /\ ~ LT(cliV, cliV)
      BY LTAsymmetric
    <3> QED
      BY <2>1, <2>2, <2>4, <3>1 DEF TagInv, LoopInv, PreLoop, Compatible
  <2> QED
    BY <2>3, <2>4
<1> QED
  BY <1>1, TagInvariant, PTL

\* A released CLI is told of a breaking release exactly when there is one.
THEOREM TellsReleasesAlways == Spec => []TellsReleases
<1>1. TagInv => TellsReleases
  BY DEF TagInv, LoopInv, ReleaseLoop, TellsReleases
<1> QED
  BY <1>1, TagInvariant, PTL

\* The loop of GetCompatibleTag keeps to the versions of the list.
THEOREM TypeCorrect == Spec => []TypeOK
<1>1. TagInv => TypeOK
  BY DEF TagInv
<1> QED
  BY <1>1, TagInvariant, PTL
=============================================================================
