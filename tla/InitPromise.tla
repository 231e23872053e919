---------------------------- MODULE InitPromise ----------------------------
(***************************************************************************)
(* What srcd init promises, however many commands run after it and         *)
(* whatever fails: when it succeeds its daemon is up with the working      *)
(* directory and the configuration that init was given, and until the next *)
(* init or prune whatever depends on them runs with these or not at all.   *)
(* Before the first init, and from the beginning of an init to its end,    *)
(* nothing is promised.                                                    *)
(***************************************************************************)
CONSTANTS Dependants, Options, Down

VARIABLES
  promise,  \* the options that init has promised, Down if none
  serving   \* serving[c]: the options c runs with, Down if it does not run

PromiseInit == promise = Down /\ serving = [c \in Dependants |-> Down]

\* A container starts, is replaced or goes.
Change(c, o) ==
  /\ promise # Down => o \in {promise, Down}
  /\ serving' = [serving EXCEPT ![c] = o]
  /\ UNCHANGED promise

\* An init succeeds.
Give(o) ==
  /\ promise = Down
  /\ promise' = o
  /\ serving' = [serving EXCEPT !["daemon"] = o]
  /\ \A c \in Dependants : serving'[c] \in {o, Down}

\* The next init begins, or prune has removed the state.
Void == promise' = Down /\ UNCHANGED serving

PromiseNext ==
  \/ \E c \in Dependants, o \in Options \cup {Down} : Change(c, o)
  \/ \E o \in Options : Give(o)
  \/ Void

PromiseSpec == PromiseInit /\ [][PromiseNext]_<<promise, serving>>
=============================================================================
