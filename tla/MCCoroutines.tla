---------------------------- MODULE MCCoroutines ----------------------------
(* The instance of Tutorial and Generator that TLC checks: the two sections *)
(* of main() that use them, each on its own.                                *)
EXTENDS Tutorial, Generator

VARIABLE section

TutorialSection ==
  /\ section = "tutorial" /\ Next
  /\ UNCHANGED <<generator, section>>

GeneratorSection ==
  /\ section = "generator" /\ GeneratorNext
  /\ UNCHANGED <<vars, section>>

SectionInit ==
  /\ section \in {"tutorial", "generator"}
  /\ Init /\ GeneratorInit
  /\ section = "generator" =>
       (\A r \in Roots : taskOf[r] = NoTask) /\ \A t \in Tasks : max_status[t] = 0

SectionSpec ==
  /\ SectionInit
  /\ [][TutorialSection \/ GeneratorSection]_<<vars, generator, section>>
  /\ WF_<<vars, generator, section>>(TutorialSection)

\* Tutorial.h: the loop of main() over test_rpc_manager_run() ends.
TutorialEnds == section = "tutorial" => EveryRootFinishes
=============================================================================
