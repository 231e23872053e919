--------------------------- MODULE CompatibleTag ---------------------------
(***************************************************************************)
(* docker/dockerhub.go: which tag of the daemon's image fits the version   *)
(* of the CLI, and whether to tell the user of a newer release.  The tags  *)
(* arrive in the order the registry lists them, which is no order at all.  *)
(***************************************************************************)
EXTENDS Naturals

CONSTANTS
  Versions,     \* versions the CLI and the tags may have
  CliVersions,  \* those of them the CLI has
  Unparsable,   \* a CLI version that is no version
  Dev,          \* the version of a CLI that was not released ("" or "dev")
  Latest,       \* the tag "latest"
  None          \* no tag

\* pre = 0: a release; pre = k > 0: its k-th pre-release.
Version == [major : Nat, minor : Nat, patch : Nat, pre : Nat]

Zero == [major |-> 0, minor |-> 0, patch |-> 0, pre |-> 0]

\* newestV starts as the zero value of its type: 0.0.0 stands for "none".
ASSUME VersionsAssumption ==
  /\ Versions \subseteq Version \ {Zero}
  /\ CliVersions \subseteq Versions
  /\ {Unparsable, Dev} \cap CliVersions = {} /\ Unparsable # Dev
  /\ {Latest, None} \cap Versions = {} /\ Latest # None

-----------------------------------------------------------------------------
(* semver, as vendor/github.com/blang/semver compares. *)

Release(v) == v.pre = 0

\* A release comes after its pre-releases.
PreLT(v, w) == ~ Release(v) /\ (Release(w) \/ v.pre < w.pre)

LT(v, w) ==
  \/ v.major < w.major
  \/ v.major = w.major /\ v.minor < w.minor
  \/ v.major = w.major /\ v.minor = w.minor /\ v.patch < w.patch
  \/ v.major = w.major /\ v.minor = w.minor /\ v.patch = w.patch /\ PreLT(v, w)

-----------------------------------------------------------------------------
VARIABLES
  pc,      \* "ask", "tags", "done"
  cliV,    \* the version of the CLI
  newestV, \* the tag to use
  hasNew,  \* hasNewBreakingTag
  answer,  \* the tag GetCompatibleTag returns, None for an error
  seen     \* history: the tags looked at so far that parse

vars == <<pc, cliV, newestV, hasNew, answer, seen>>

TypeOK ==
  /\ pc \in {"ask", "tags", "done"}
  /\ cliV \in CliVersions \cup {Dev, Unparsable}
  /\ newestV \in Versions \cup {Zero}
  /\ hasNew \in BOOLEAN
  /\ answer \in Versions \cup {None, Latest}
  /\ seen \subseteq Versions

Init ==
  /\ pc = "ask"
  /\ cliV \in CliVersions \cup {Dev, Unparsable}
  /\ newestV = Zero /\ hasNew = FALSE /\ answer = None
  /\ seen = {}

\* A wrong bound: the next major version also for 0.x.
nextMajor(v) == [major |-> v.major + 1, minor |-> 0, patch |-> 0, pre |-> 0]

\* The first version that may break a CLI of version v.
breakingV(v) ==
  IF v.major >= 1
  THEN [major |-> v.major + 1, minor |-> 0, patch |-> 0, pre |-> 0]
  ELSE [major |-> 0, minor |-> v.minor + 1, patch |-> 0, pre |-> 0]

Answer(a) ==
  /\ pc' = "done"
  /\ answer' = a
  /\ UNCHANGED <<cliV, newestV, hasNew, seen>>

DevVersion == pc = "ask" /\ cliV = Dev /\ Answer(Latest)

\* The CLI's version does not parse, or the registry does not answer.
Fail == pc = "ask" /\ cliV # Dev /\ Answer(None)

GetTags ==
  /\ pc = "ask" /\ cliV \in CliVersions
  /\ pc' = "tags"
  /\ UNCHANGED <<cliV, newestV, hasNew, answer, seen>>

Looking == pc = "tags"

\* The next tag.  One that does not parse is passed over: it changes nothing.
Look(v) ==
  /\ seen' = seen \cup {v}
  /\ UNCHANGED <<pc, cliV, answer>>

-----------------------------------------------------------------------------
(* getCompatibleTag: a release of the CLI. *)

Skip(v) ==
  /\ Looking /\ Release(cliV)
  /\ ~ Release(v) \/ LT(v, cliV)
  /\ Look(v)
  /\ UNCHANGED <<newestV, hasNew>>

Breaks(v) ==
  /\ Looking /\ Release(cliV) /\ Release(v) /\ ~ LT(v, cliV)
  /\ ~ LT(v, breakingV(cliV))
  /\ Look(v)
  /\ hasNew' = TRUE
  /\ UNCHANGED newestV

\* A wrong loop: the last compatible tag wins, not the newest.
FitsLast(v) ==
  /\ Looking /\ Release(cliV) /\ Release(v) /\ ~ LT(v, cliV)
  /\ LT(v, breakingV(cliV))
  /\ Look(v)
  /\ newestV' = v
  /\ UNCHANGED hasNew

Fits(v) ==
  /\ Looking /\ Release(cliV) /\ Release(v) /\ ~ LT(v, cliV)
  /\ LT(v, breakingV(cliV))
  /\ Look(v)
  /\ newestV' = IF LT(newestV, v) THEN v ELSE newestV
  /\ UNCHANGED hasNew

-----------------------------------------------------------------------------
(* getCompatibleTagForPre: a pre-release of the CLI. *)

PreSame(v) ==
  /\ Looking /\ ~ Release(cliV)
  /\ v = cliV
  /\ Look(v)
  /\ newestV' = cliV
  /\ UNCHANGED hasNew

PreOlder(v) ==
  /\ Looking /\ ~ Release(cliV)
  /\ LT(v, cliV)
  /\ Look(v)
  /\ UNCHANGED <<newestV, hasNew>>

PreNewer(v) ==
  /\ Looking /\ ~ Release(cliV)
  /\ LT(cliV, v)
  /\ Look(v)
  /\ hasNew' = TRUE
  /\ UNCHANGED newestV

-----------------------------------------------------------------------------
\* A wrong end: the zero value of newestV is answered as a tag.
FinishUnchecked ==
  /\ pc = "tags"
  /\ Answer(newestV)

\* The registry lists no more tags.
Finish ==
  /\ pc = "tags"
  /\ Answer(IF newestV = Zero THEN None ELSE newestV)

Tag(v) ==
  \/ Skip(v) \/ Breaks(v) \/ Fits(v)
  \/ PreSame(v) \/ PreOlder(v) \/ PreNewer(v)

Next ==
  \/ DevVersion \/ Fail \/ GetTags
  \/ \E v \in Versions : Tag(v)
  \/ Finish

Spec == Init /\ [][Next]_vars

-----------------------------------------------------------------------------
(* Properties. *)

\* Versions that promise each other compatibility: one major version, for
\* 0.x one minor version.
SameLine(v, w) ==
  /\ v.major = w.major
  /\ v.major = 0 => v.minor = w.minor

\* The tags a CLI of version c can work with.
Compatible(c) ==
  IF Release(c) THEN {v \in seen : Release(v) /\ SameLine(v, c) /\ ~ LT(v, c)}
  ELSE seen \cap {c}

\* dockerhub.go:14: "returns the semver tag of an image compatible with the
\* currentVersion".  The answer is the newest compatible tag, in whatever
\* order the registry listed them, and an error only if there is none.
NewestCompatible ==
  pc = "done" /\ cliV \in CliVersions =>
    IF answer = None THEN Compatible(cliV) = {}
    ELSE /\ answer \in Compatible(cliV)
         /\ \A v \in Compatible(cliV) : ~ LT(answer, v)

\* A newer version that may break a CLI of version c was listed.
BreakingListed(c) ==
  \E v \in seen : Release(v) /\ LT(c, v) /\ ~ SameLine(v, c)

\* A released CLI is told of a newer release exactly if one was listed that is
\* not compatible with it.
TellsReleases ==
  pc = "done" /\ cliV \in CliVersions =>
    (Release(cliV) => (hasNew <=> BreakingListed(cliV)))
=============================================================================
