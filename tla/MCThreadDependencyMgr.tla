----------------------- MODULE MCThreadDependencyMgr -----------------------
(***************************************************************************)
(* Builds for model checking the thread dependency manager.                *)
(***************************************************************************)
EXTENDS ThreadDependencyMgr, FiniteSetsExt

CONSTANTS tA, tB, tC, tD, ghost, null, main, shell

\* Every dependency graph over three threads and a name nobody registers,
\* from a choice of dependency lists: self loops, cycles, dependents before
\* and after what they need, a list cut at MAX_DEPENDENCIES = 2 and one cut at
\* a NULL, and a last thread with or without a semaphore.
DepLists ==
  {<<>>, <<tA>>, <<tB>>, <<tC>>, <<ghost>>, <<tB, tA>>, <<tC, tA>>, <<tB, tC, ghost>>,
   <<tA, null, ghost>>}

AllGraphs ==
  {<<THREAD_DEFINE(tA, x), THREAD_DEFINE(tB, y), z>> :
     x \in DepLists, y \in DepLists,
     z \in {THREAD_DEFINE(tC, deps) : deps \in DepLists}
             \cup {THREAD_DEFINE_NO_SEM(tC, deps) : deps \in {<<>>, <<tB>>, <<ghost>>}}}

MainOnly == [x \in {main} |-> ALL]

\* One thread too many for the registry: tD is dropped, and tC needs it in
\* some builds.
DroppedThread ==
  {<<THREAD_DEFINE(tA, <<tB>>), THREAD_DEFINE(tB, <<tC>>), THREAD_DEFINE(tC, z),
     THREAD_DEFINE(tD, <<>>)>> : z \in {<<>>, <<tD>>, <<null, tD>>}}
  \cup
  {<<THREAD_DEFINE(tC, <<>>), THREAD_DEFINE(tB, <<tC>>), THREAD_DEFINE(tA, <<tB, tC>>),
     THREAD_DEFINE(tD, <<tA>>)>>}

AllBuilds == AllGraphs \cup DroppedThread

\* A second thread asks for one service while main starts them all.
Overlap ==
  {<<THREAD_DEFINE(tC, x), THREAD_DEFINE(tB, y), THREAD_DEFINE(tA, <<>>)>> :
     x \in {<<tB, tA>>, <<tA>>}, y \in {<<>>, <<tA>>}}
  \cup
  {<<THREAD_DEFINE(tC, <<tB, tA>>), THREAD_DEFINE_NO_SEM(tA, <<>>), THREAD_DEFINE(tB, <<tA>>)>>}

MainAndShell == [x \in {main, shell} |-> IF x = main THEN ALL ELSE tA]
=============================================================================
