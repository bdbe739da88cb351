---------------------------- MODULE DriverProofs ----------------------------
(***************************************************************************)
(* The driver, proved for any programs, any names of theirs and any number *)
(* of invocations: what it leaves behind, and whose outputs those are.     *)
(*                                                                         *)
(* The argument follows one program through the places it is copied to. As *)
(* long as no copy has failed and no late build has come in between, what  *)
(* the child has made so far is made from the program asked for, however   *)
(* earlier invocations have ended; beyond the child's position nothing is  *)
(* known, and nothing needs to be.                                         *)
(***************************************************************************)
EXTENDS Driver, TLAPS

Version == Programs \cup {None}
Image == [File -> Version]
MakeOf(c) == IF c = "scalar" THEN "make scalar" ELSE "make pipeline"
NextOf(c) == IF c = "scalar" THEN "make pipeline" ELSE "finished"
WaitOf(c) == IF c = "scalar" THEN "wait scalar" ELSE "wait pipeline"

BeforeCopies == {"bench", "assembly", "ass2bin"}
Pipelines == {"make pipeline", "build pipeline", "start pipeline", "wait pipeline"}
FilesNeeded == {"make scalar", "build scalar", "start scalar", "wait scalar",
                "make pipeline"}
After(c) == {"finished"} \cup IF c = "scalar" THEN Pipelines ELSE {}

\* Where both processes are.
ControlOK ==
  /\ parent \in {"sleep", "terminate", "pkill", "done"}
  /\ child \in {"bench", "assembly", "ass2bin", "copy",
                "make scalar", "build scalar", "start scalar", "wait scalar",
                "make pipeline", "build pipeline", "start pipeline", "wait pipeline",
                "finished", "exited", "killed"}
  /\ copied \in 0 .. 6

\* What the files are.
ContentsOK ==
  /\ want \in Version
  /\ assembly \in [{NameOf[p] : p \in Programs} -> Version]
  /\ generated \in Version
  /\ files \in [Core -> Image]
  /\ building \in Image /\ orphans \subseteq Core \X Image
  /\ test_exe \in [Core -> Image]
  /\ running \in [Core -> Image] /\ output \in [Core -> Image]

TypeOK == ControlOK /\ ContentsOK

\* The parent is done only with a child that has come to an end.
ChildEnded == parent \in {"pkill", "done"} => ~Alive

\* A simulation runs only while the child waits for it, or, when the child has
\* been ended, until pkill.
RunsAwaited ==
  \A c \in Core : running[c] # Nothing =>
    child = WaitOf(c) \/ (child = "killed" /\ parent = "pkill")

\* No copy has failed, and no build of an earlier invocation has come late.
Good == {"cp", "late build"} \cap failed = {}

\* What the child has made so far is made from the program asked for.
WantsProgram == Alive => want \in Programs
NothingCopied == child \in BeforeCopies => copied = 0
AssemblyFresh == Good /\ child = "ass2bin" => assembly[NameOf[want]] = want
CopiesFresh ==
  Good /\ child = "copy" =>
    /\ generated = want
    /\ \A n \in 1 .. copied : files[Copies[n][1]][Copies[n][2]] = want
FilesFresh ==
  Good /\ child \in FilesNeeded => \A c \in Core : IsOf(files[c], want)
BuildFresh ==
  \A c \in Core : Good /\ child = BuildOf(c) => IsOf(building, want)
TestFresh ==
  \A c \in Core : Good /\ child = StartOf(c) => IsOf(test_exe[c], want)
RunFresh ==
  \A c \in Core : Good /\ child = WaitOf(c) =>
    IF running[c] = Nothing THEN IsOf(output[c], want) ELSE IsOf(running[c], want)
OutputFresh ==
  \A c \in Core : Good /\ child \in After(c) => IsOf(output[c], want)

Fresh == /\ WantsProgram /\ NothingCopied /\ AssemblyFresh /\ CopiesFresh
         /\ FilesFresh /\ BuildFresh /\ TestFresh /\ RunFresh /\ OutputFresh

Inv == TypeOK /\ ChildEnded /\ RunsAwaited /\ Fresh

-----------------------------------------------------------------------------
(* Types.                                                                  *)

\* A copy in the list is one of a file to a core, and every file gets to every
\* core.
LEMMA AllCopies ==
  /\ Len(Copies) = 6
  /\ \A n \in 1 .. 6 : Copies[n][1] \in Core /\ Copies[n][2] \in File
  /\ \A c \in Core, f \in File :
       \E n \in 1 .. 6 : Copies[n][1] = c /\ Copies[n][2] = f
BY DEF Copies, Core, File

\* Files are images of one version, or of none.
LEMMA Images ==
  /\ Nothing \in Image
  /\ \A p \in Version : [f \in File |-> p] \in Image
  /\ \A p \in Programs : [f \in File |-> p] # Nothing
<1>1. "imem" \in File
  BY DEF File
<1>2. ASSUME NEW p \in Programs, [f \in File |-> p] = Nothing PROVE FALSE
  <2>1. Nothing["imem"] = p
    BY <1>1, <1>2
  <2>2. Nothing["imem"] = None
    BY <1>1 DEF Nothing
  <2> QED
    BY <2>1, <2>2, ProgramsAssumption
<1> QED
  BY <1>2 DEF Nothing, Image, Version

\* At first there is nothing.
LEMMA InitInv == Init => Inv
<1> SUFFICES ASSUME Init PROVE Inv
  OBVIOUS
<1>1. TypeOK
  BY Images DEF Init, TypeOK, ControlOK, ContentsOK, Version
<1>2. ChildEnded /\ RunsAwaited
  BY DEF Init, ChildEnded, Alive, RunsAwaited
<1>3. Fresh
  BY DEF Init, Alive, Fresh, WantsProgram, NothingCopied, AssemblyFresh,
         CopiesFresh, FilesFresh, BuildFresh, TestFresh, RunFresh, OutputFresh,
         BeforeCopies, FilesNeeded, After, Pipelines, BuildOf, StartOf, WaitOf,
         IsOf, Nothing, None, Core
<1> QED
  BY <1>1, <1>2, <1>3 DEF Inv

\* What a copy does: the next of the list, or nothing.
LEMMA CopyStep ==
  ASSUME TypeOK, Copy
  PROVE  \E n \in 1 .. 6 :
           /\ n = copied + 1 /\ copied' = n
           /\ child = "copy" /\ child' = IF n = 6 THEN "make scalar" ELSE "copy"
           /\ \/ files' = [files EXCEPT ![Copies[n][1]][Copies[n][2]] = generated]
                 /\ failed' = failed
              \/ files' = files /\ failed' = failed \cup {"cp"}
<1> DEFINE n == copied + 1
<1>1. /\ copied < Len(Copies) /\ copied' = n /\ child = "copy"
      /\ child' = IF copied' = Len(Copies) THEN "make scalar" ELSE child
      /\ \/ files' = [files EXCEPT ![Copies[copied'][1]][Copies[copied'][2]] = generated]
            /\ failed' = failed
         \/ files' = files /\ failed' = failed \cup {"cp"}
  BY DEF Copy
<1>2. copied \in 0 .. 6 /\ copied < 6
  BY <1>1, AllCopies DEF TypeOK, ControlOK
<1>3. n \in 1 .. 6
  BY <1>2
<1> QED
  BY <1>1, <1>3, AllCopies

\* The types are kept by every step.
LEMMA ControlStep == TypeOK /\ [Next]_vars => ControlOK'
<1> SUFFICES ASSUME TypeOK, [Next]_vars PROVE ControlOK'
  OBVIOUS
<1>1. ASSUME NEW p \in Programs, Start(p) PROVE ControlOK'
  <2>1. parent' = "sleep" /\ child' = "bench" /\ copied' = 0
    BY <1>1 DEF Start
  <2> QED
    BY <2>1 DEF ControlOK
<1>2. CASE Copy
  <2>1. PICK n \in 1 .. 6 : /\ copied' = n
                            /\ child' = IF n = 6 THEN "make scalar" ELSE "copy"
    BY <1>2, CopyStep
  <2>2. parent' = parent /\ parent \in {"sleep", "terminate", "pkill", "done"}
    BY <1>2 DEF Copy, Main, TypeOK, ControlOK
  <2>3. child' \in {"make scalar", "copy"}
    BY <2>1
  <2>4. copied' \in 0 .. 6
    <3>1. 1 .. 6 \subseteq 0 .. 6
      OBVIOUS
    <3> QED
      BY <2>1, <3>1
  <2> QED
    BY <2>2, <2>3, <2>4 DEF ControlOK
<1>3. CASE Child /\ ~Copy
  BY <1>3 DEF TypeOK, ControlOK, Child, MakeBench, CopyAssembly, Ass2bin, StartMake, EndMake,
              StartTest, Return, Main
<1>4. CASE OrphanEnds
  BY <1>4 DEF TypeOK, ControlOK, OrphanEnds, Main
<1>5. ASSUME NEW c \in Core, TestEnds(c) PROVE ControlOK'
  BY <1>5 DEF TypeOK, ControlOK, TestEnds, Main
<1>6. CASE Parent
  BY <1>6 DEF TypeOK, ControlOK, Parent, Wake, Terminate, Pkill, Files
<1>7. CASE UNCHANGED vars
  BY <1>7 DEF TypeOK, ControlOK, vars
<1> QED
  BY <1>1, <1>2, <1>3, <1>4, <1>5, <1>6, <1>7 DEF Next

\* Every step keeps what is in the files: versions of programs, or nothing.
LEMMA ContentsStep == TypeOK /\ WantsProgram /\ [Next]_vars => ContentsOK'
<1> SUFFICES ASSUME TypeOK, WantsProgram, [Next]_vars PROVE ContentsOK'
  OBVIOUS
<1> USE DEF TypeOK, ContentsOK, builds
<1>1. ASSUME NEW p \in Programs, Start(p) PROVE ContentsOK'
  BY <1>1 DEF Start, Version
<1>2. CASE MakeBench
  BY <1>2 DEF MakeBench, Main
<1>3. CASE CopyAssembly
  <2>1. want \in Version
    OBVIOUS
  <2> QED
    BY <1>3, <2>1 DEF CopyAssembly, Main
<1>4. CASE Ass2bin
  <2>1. NameOf[want] \in {NameOf[p] : p \in Programs}
    BY <1>4 DEF Ass2bin, WantsProgram, Alive
  <2>2. assembly[NameOf[want]] \in Version /\ None \in Version
    BY <2>1 DEF Version
  <2> QED
    BY <1>4, <2>2 DEF Ass2bin, Main
<1>5. CASE Copy
  <2>1. PICK n \in 1 .. 6 :
          \/ files' = [files EXCEPT ![Copies[n][1]][Copies[n][2]] = generated]
          \/ files' = files
    BY <1>5, CopyStep
  <2> DEFINE c == Copies[n][1]
             f == Copies[n][2]
  <2>2. c \in Core /\ f \in File
    BY AllCopies
  <2>3. files' \in [Core -> Image]
    <3> HIDE DEF c, f
    <3>1. files \in [Core -> [File -> Version]] /\ generated \in Version
      BY DEF Image
    <3>2. files' = [files EXCEPT ![c][f] = generated] \/ files' = files
      BY <2>1 DEF c, f
    <3>3. ASSUME files' = [files EXCEPT ![c][f] = generated]
          PROVE  files' \in [Core -> [File -> Version]]
      BY <2>2, <3>1, <3>3
    <3> QED
      BY <3>1, <3>2, <3>3 DEF Image
  <2> QED
    BY <1>5, <2>3 DEF Copy, Main
<1>6. ASSUME NEW c \in Core, NEW here, NEW next, StartMake(c, here, next)
      PROVE  ContentsOK'
  BY <1>6, Images DEF StartMake, Main
<1>7. ASSUME NEW c \in Core, NEW here, NEW next, EndMake(c, here, next)
      PROVE  ContentsOK'
  BY <1>7, Images DEF EndMake, Main
<1>8. ASSUME NEW c \in Core, NEW here, NEW next, StartTest(c, here, next)
      PROVE  ContentsOK'
  BY <1>8, Images DEF StartTest, Main
<1>9. ASSUME NEW c \in Core, NEW here, NEW next, Return(c, here, next)
      PROVE  ContentsOK'
  BY <1>9 DEF Return, Main
<1>10. CASE OrphanEnds
  BY <1>10 DEF OrphanEnds, Main
<1>11. ASSUME NEW c \in Core, TestEnds(c) PROVE ContentsOK'
  BY <1>11, Images DEF TestEnds, Main
<1>12. CASE Wake
  BY <1>12 DEF Wake, Files
<1>13. CASE Terminate
  <2>1. orphans' = orphans \cup {<<c, building>> : c \in {d \in Core : child = BuildOf(d)}}
    BY <1>13 DEF Terminate
  <2>2. orphans' \subseteq Core \X Image
    BY <2>1
  <2> QED
    BY <1>13, <2>2, Images DEF Terminate, Files
<1>14. CASE Pkill
  BY <1>14, Images DEF Pkill, Files
<1>15. CASE UNCHANGED vars
  BY <1>15 DEF vars
<1>16. "scalar" \in Core /\ "pipeline" \in Core
  BY DEF Core
<1> QED
  BY <1>1, <1>2, <1>3, <1>4, <1>5, <1>6, <1>7, <1>8, <1>9, <1>10, <1>11, <1>12,
     <1>13, <1>14, <1>15, <1>16 DEF Next, Child, Parent

-----------------------------------------------------------------------------
(* What the child makes is made from the program asked for.                *)

\* A new invocation needs nothing of what the one before has left, and knows
\* nothing of it.
LEMMA StartFresh ==
  ASSUME Inv, NEW p \in Programs, Start(p)
  PROVE  Fresh' /\ ChildEnded' /\ RunsAwaited'
<1>1. /\ parent = "done" /\ parent' = "sleep" /\ child' = "bench" /\ copied' = 0
      /\ want' = p /\ running' = running
  BY DEF Start
<1>2. \A c \in Core : running[c] = Nothing
  BY <1>1 DEF Inv, ChildEnded, RunsAwaited, Alive, WaitOf
<1> QED
  BY <1>1, <1>2
  DEF Fresh, WantsProgram, NothingCopied, AssemblyFresh, CopiesFresh,
      FilesFresh, BuildFresh, TestFresh, RunFresh, OutputFresh, ChildEnded,
      RunsAwaited, Alive, BuildOf, StartOf, WaitOf, After, Pipelines, FilesNeeded

\* While the child is alive the parent waits or is about to end it, and only
\* the simulation that the child waits for is running.
LEMMA ChildRuns ==
  ASSUME Inv, Alive
  PROVE  /\ parent \in {"sleep", "terminate"} /\ want \in Programs
         /\ \A c \in Core : running[c] # Nothing => child = WaitOf(c)
BY DEF Inv, TypeOK, ControlOK, ChildEnded, RunsAwaited, Fresh, WantsProgram

\* What the rest needs of a step that goes from one position to the next.
Step == Fresh' /\ ChildEnded' /\ RunsAwaited'

\* The builds of the bench and the copy of the assembly.
LEMMA FirstSteps ==
  ASSUME Inv, MakeBench \/ CopyAssembly PROVE Step
<1> USE DEF Step, Fresh, WantsProgram, NothingCopied, AssemblyFresh, CopiesFresh,
      FilesFresh, BuildFresh, TestFresh, RunFresh, OutputFresh, ChildEnded,
      RunsAwaited, Alive, BuildOf, StartOf, WaitOf, After, Pipelines, FilesNeeded,
      BeforeCopies, Main, Inv
<1>1. /\ parent \in {"sleep", "terminate"} /\ want \in Programs
      /\ \A c \in Core : running[c] = Nothing
  BY ChildRuns DEF MakeBench, CopyAssembly
<1>2. CASE MakeBench
  BY <1>1, <1>2 DEF MakeBench
<1>3. CASE CopyAssembly
  <2>1. Good' => assembly'[NameOf[want]] = want
    <3>1. NameOf[want] \in {NameOf[p] : p \in Programs}
      BY <1>1
    <3> QED
      BY <1>3, <3>1 DEF CopyAssembly, Good, TypeOK, ContentsOK
  <2> QED
    BY <1>1, <1>3, <2>1 DEF CopyAssembly
<1> QED
  BY <1>2, <1>3

\* The images are those of the copy of the assembly.
LEMMA Ass2binFresh ==
  ASSUME Inv, Ass2bin PROVE Step
<1> USE DEF Step, Fresh, WantsProgram, NothingCopied, AssemblyFresh, CopiesFresh,
      FilesFresh, BuildFresh, TestFresh, RunFresh, OutputFresh, ChildEnded,
      RunsAwaited, Alive, BuildOf, StartOf, WaitOf, After, Pipelines, FilesNeeded,
      BeforeCopies, Main, Inv
<1>1. /\ parent \in {"sleep", "terminate"} /\ want \in Programs
      /\ \A c \in Core : running[c] = Nothing
  BY ChildRuns DEF Ass2bin
<1>2. copied' = 0 /\ 1 .. 0 = {}
  BY DEF Ass2bin
<1> QED
  BY <1>1, <1>2 DEF Ass2bin, Good

\* After the last copy every core has all three files.
LEMMA CopyFresh ==
  ASSUME Inv, Copy PROVE Step
<1>1. PICK n \in 1 .. 6 :
           /\ n = copied + 1 /\ copied' = n
           /\ child = "copy" /\ child' = IF n = 6 THEN "make scalar" ELSE "copy"
           /\ \/ files' = [files EXCEPT ![Copies[n][1]][Copies[n][2]] = generated]
                 /\ failed' = failed
              \/ files' = files /\ failed' = failed \cup {"cp"}
  BY CopyStep DEF Inv
<1>2. UNCHANGED <<want, parent, generated, running>>
  BY DEF Copy, Main
<1>3. /\ parent \in {"sleep", "terminate"} /\ want \in Programs
      /\ \A c \in Core : running[c] = Nothing
  BY <1>1, ChildRuns DEF Alive, WaitOf
<1>4. ASSUME Good' PROVE \A m \in 1 .. n : files'[Copies[m][1]][Copies[m][2]] = want
  <2>1. /\ Good /\ generated = want
        /\ files' = [files EXCEPT ![Copies[n][1]][Copies[n][2]] = generated]
    BY <1>1, <1>4 DEF Good, Inv, Fresh, CopiesFresh
  <2> TAKE m \in 1 .. n
  <2>2. CASE m = n
    BY <1>1, <2>1, <2>2, AllCopies DEF Inv, TypeOK, ContentsOK, Image
  <2>3. CASE m # n
    <3>1. m \in 1 .. copied
      <4>1. copied \in 0 .. 6 /\ n = copied + 1
        BY <1>1 DEF Inv, TypeOK, ControlOK
      <4> QED
        BY <2>3, <4>1
    <3>2. files[Copies[m][1]][Copies[m][2]] = want
      BY <1>1, <2>1, <3>1 DEF Inv, Fresh, CopiesFresh
    <3>3. /\ Copies[n][1] \in Core /\ Copies[n][2] \in File
          /\ Copies[m][1] \in Core /\ Copies[m][2] \in File
      <4>1. m \in 1 .. 6
        OBVIOUS
      <4> QED
        BY <1>1, <4>1, AllCopies
    <3> QED
      BY <2>1, <3>2, <3>3 DEF Inv, TypeOK, ContentsOK, Image
  <2> QED
    BY <2>2, <2>3
<1>5. CASE n # 6
  <2>1. CopiesFresh'
    <3>1. ASSUME Good' PROVE generated' = want'
      BY <1>1, <1>2, <3>1 DEF Good, Inv, Fresh, CopiesFresh
    <3> QED
      BY <1>1, <1>2, <1>4, <3>1 DEF CopiesFresh
  <2>2. child' = "copy"
    BY <1>1, <1>5
  <2> QED
    BY <1>2, <1>3, <2>1, <2>2
  DEF Step, Fresh, WantsProgram, NothingCopied, AssemblyFresh, CopiesFresh,
          FilesFresh, BuildFresh, TestFresh, RunFresh, OutputFresh, ChildEnded,
          RunsAwaited, Alive, BuildOf, StartOf, WaitOf, After, Pipelines,
          FilesNeeded, BeforeCopies
<1>6. CASE n = 6
  <2>1. ASSUME Good', NEW c \in Core PROVE IsOf(files'[c], want)
    <3>1. files'[c] \in Image
      BY ContentsStep DEF Inv, Fresh, Next, Child, ContentsOK
    <3>2. ASSUME NEW f \in File PROVE files'[c][f] = want
      <4>1. PICK m \in 1 .. 6 : Copies[m][1] = c /\ Copies[m][2] = f
        BY AllCopies
      <4> QED
        BY <1>4, <1>6, <2>1, <4>1
    <3> QED
      BY <3>1, <3>2 DEF IsOf, Image
  <2> QED
    BY <1>1, <1>2, <1>3, <1>6, <2>1
    DEF Step, Fresh, WantsProgram, NothingCopied, AssemblyFresh, CopiesFresh,
          FilesFresh, BuildFresh, TestFresh, RunFresh, OutputFresh, ChildEnded,
          RunsAwaited, Alive, BuildOf, StartOf, WaitOf, After, Pipelines,
          FilesNeeded, BeforeCopies
<1> QED
  BY <1>5, <1>6

\* make clean and make take the files of the core, and the build becomes the
\* program the simulation is started from.
LEMMA MakesFresh ==
  ASSUME Inv, NEW c \in Core,
         \/ StartMake(c, MakeOf(c), BuildOf(c))
         \/ EndMake(c, BuildOf(c), StartOf(c))
  PROVE  Step
<1> USE DEF Step, Fresh, WantsProgram, NothingCopied, AssemblyFresh, CopiesFresh,
      FilesFresh, BuildFresh, TestFresh, RunFresh, OutputFresh, ChildEnded,
      RunsAwaited, Alive, BuildOf, StartOf, WaitOf, MakeOf, After, Pipelines,
      FilesNeeded, BeforeCopies, Main, Inv
<1>1. /\ parent \in {"sleep", "terminate"} /\ want \in Programs
      /\ \A d \in Core : running[d] = Nothing
  BY ChildRuns DEF StartMake, EndMake
<1>2. CASE StartMake(c, MakeOf(c), BuildOf(c))
  BY <1>1, <1>2 DEF StartMake, Good
<1>3. CASE EndMake(c, BuildOf(c), StartOf(c))
  BY <1>1, <1>3 DEF EndMake, Good, TypeOK, ContentsOK, Core
<1> QED
  BY <1>2, <1>3

\* The simulation is of what has just been built; when the child goes on it has
\* ended, and the output is its own.
LEMMA TestsFresh ==
  ASSUME Inv, NEW c \in Core,
         \/ StartTest(c, StartOf(c), WaitOf(c))
         \/ Return(c, WaitOf(c), NextOf(c))
  PROVE  Step
<1> USE DEF Step, Fresh, WantsProgram, NothingCopied, AssemblyFresh, CopiesFresh,
      FilesFresh, BuildFresh, TestFresh, RunFresh, OutputFresh, ChildEnded,
      RunsAwaited, Alive, BuildOf, StartOf, WaitOf, MakeOf, NextOf, After,
      Pipelines, FilesNeeded, BeforeCopies, Main, Inv
<1>1. /\ parent \in {"sleep", "terminate"} /\ want \in Programs
      /\ \A d \in Core : running[d] # Nothing => child = WaitOf(d)
  BY ChildRuns DEF StartTest, Return
<1>2. CASE StartTest(c, StartOf(c), WaitOf(c))
  <2>1. \A d \in Core : running'[d] = IF d = c THEN test_exe[c] ELSE running[d]
    BY <1>2 DEF StartTest, TypeOK, ContentsOK
  <2>2. \A d \in Core : d # c => output'[d] = output[d]
    BY <1>2 DEF StartTest, TypeOK, ContentsOK
  <2>3. \A d \in Core : WaitOf(d) = WaitOf(c) => d = c
    BY DEF Core
  <2>4. Good => IsOf(test_exe[c], want) /\ test_exe[c] # Nothing
    BY <1>1, <1>2, Images DEF StartTest, IsOf
  <2> QED
    BY <1>1, <1>2, <2>1, <2>2, <2>3, <2>4 DEF StartTest, Good, Core
<1>3. CASE Return(c, WaitOf(c), NextOf(c))
  BY <1>1, <1>3 DEF Return, Good, Core
<1> QED
  BY <1>2, <1>3

\* A late build changes nothing that the child has made, unless it says so.
LEMMA OrphanFresh ==
  ASSUME Inv, OrphanEnds PROVE Step
<1> USE DEF Step, Fresh, WantsProgram, NothingCopied, AssemblyFresh, CopiesFresh,
      FilesFresh, BuildFresh, TestFresh, RunFresh, OutputFresh, ChildEnded,
      RunsAwaited, Alive, BuildOf, StartOf, WaitOf, MakeOf, NextOf, After,
      Pipelines, FilesNeeded, BeforeCopies, Main, Inv
<1>1. PICK o \in orphans :
        /\ test_exe' = [test_exe EXCEPT ![o[1]] = o[2]]
        /\ building' \in IF child = BuildOf(o[1]) THEN {building, o[2]} ELSE {building}
        /\ failed' = IF child \in {BuildOf(o[1]), StartOf(o[1])}
                      THEN failed \cup {"late build"} ELSE failed
  BY DEF OrphanEnds
<1>2. Good' => /\ Good /\ building' = building
               /\ child # StartOf(o[1])
  BY <1>1 DEF Good
<1>3. \A d \in Core : Good' /\ child = StartOf(d) => test_exe'[d] = test_exe[d]
  BY <1>1, <1>2 DEF TypeOK, ContentsOK
<1> QED
  BY <1>2, <1>3 DEF OrphanEnds

\* The output of a simulation is what the simulation was built from.
LEMMA EndsFresh ==
  ASSUME Inv, NEW c \in Core, TestEnds(c) PROVE Step
<1> USE DEF Step, Fresh, WantsProgram, NothingCopied, AssemblyFresh, CopiesFresh,
      FilesFresh, BuildFresh, TestFresh, RunFresh, OutputFresh, ChildEnded,
      RunsAwaited, Alive, BuildOf, StartOf, WaitOf, MakeOf, NextOf, After,
      Pipelines, FilesNeeded, BeforeCopies, Main, Inv
<1>1. /\ \A d \in Core : running'[d] = IF d = c THEN Nothing ELSE running[d]
      /\ \A d \in Core : output'[d] = IF d = c THEN running[c] ELSE output[d]
  BY DEF TestEnds, TypeOK, ContentsOK
<1>2. child \in {WaitOf(c), "killed"}
  BY DEF TestEnds
<1>3. \A d \in Core : child \in After(d) => d # c
  BY <1>2 DEF Core
<1>4. RunFresh'
  <2> SUFFICES ASSUME NEW d \in Core, Good', child' = WaitOf(d)
               PROVE  running'[d] = Nothing /\ IsOf(output'[d], want')
    OBVIOUS
  <2>1. d = c /\ Good /\ child = WaitOf(c) /\ running[c] # Nothing /\ want' = want
    BY <1>2 DEF TestEnds, Good, Core
  <2> QED
    BY <1>1, <2>1
<1>5. OutputFresh'
  BY <1>1, <1>3, ZenonT(40) DEF TestEnds, Good
<1>6. RunsAwaited'
  BY <1>1 DEF TestEnds
<1>7. /\ UNCHANGED <<Main, child, copied, assembly, generated, files, building, test_exe>>
      /\ Good' = Good
  BY DEF TestEnds, Good, builds
<1> QED
  BY <1>4, <1>5, <1>6, <1>7

\* The parent makes nothing: it ends the child, which is then not at any
\* position any more, and what the child waited for.
LEMMA ParentFresh ==
  ASSUME Inv, Parent PROVE Step
<1> USE DEF Step, Fresh, WantsProgram, NothingCopied, AssemblyFresh, CopiesFresh,
      FilesFresh, BuildFresh, TestFresh, RunFresh, OutputFresh, ChildEnded,
      RunsAwaited, Alive, BuildOf, StartOf, WaitOf, MakeOf, NextOf, After,
      Pipelines, FilesNeeded, BeforeCopies, Main, Inv
<1>1. CASE Wake
  BY <1>1 DEF Wake, Files, builds, Good
<1>2. CASE Terminate
  BY <1>2 DEF Terminate, Files, Good
<1>3. CASE Pkill
  BY <1>3 DEF Pkill, Files, builds, Good
<1> QED
  BY <1>1, <1>2, <1>3 DEF Parent

-----------------------------------------------------------------------------
(* Inv is inductive, and says what the driver promises.                    *)

\* Every step of child, parent and orphan keeps the invariant.
LEMMA NextInv == Inv /\ [Next]_vars => Inv'
<1> SUFFICES ASSUME Inv, [Next]_vars PROVE Inv'
  OBVIOUS
<1>1. TypeOK'
  BY ControlStep, ContentsStep DEF Inv, Fresh, TypeOK
<1>2. Step
  <2>1. ASSUME NEW p \in Programs, Start(p) PROVE Step
    BY <2>1, StartFresh DEF Step
  <2>2. CASE Child
    <3>1. "scalar" \in Core /\ "pipeline" \in Core
      BY DEF Core
    <3>2. CASE MakeBench \/ CopyAssembly \/ Ass2bin \/ Copy
      BY <3>2, FirstSteps, Ass2binFresh, CopyFresh
    <3>3. CASE \/ StartMake("scalar", "make scalar", "build scalar")
               \/ EndMake("scalar", "build scalar", "start scalar")
               \/ StartMake("pipeline", "make pipeline", "build pipeline")
               \/ EndMake("pipeline", "build pipeline", "start pipeline")
      BY <3>1, <3>3, MakesFresh DEF MakeOf, BuildOf, StartOf
    <3>4. CASE \/ StartTest("scalar", "start scalar", "wait scalar")
               \/ Return("scalar", "wait scalar", "make pipeline")
               \/ StartTest("pipeline", "start pipeline", "wait pipeline")
               \/ Return("pipeline", "wait pipeline", "finished")
      BY <3>1, <3>4, TestsFresh DEF StartOf, WaitOf, NextOf
    <3> QED
      BY <2>2, <3>2, <3>3, <3>4 DEF Child
  <2>3. CASE UNCHANGED vars
    BY <2>3
    DEF vars, builds, Step, Inv, Fresh, WantsProgram, NothingCopied, AssemblyFresh,
        CopiesFresh, FilesFresh, BuildFresh, TestFresh, RunFresh, OutputFresh,
        ChildEnded, RunsAwaited, Alive, Good
  <2> QED
    BY <2>1, <2>2, <2>3, OrphanFresh, EndsFresh, ParentFresh DEF Next
<1> QED
  BY <1>1, <1>2 DEF Inv, Step

\* The inductive invariant holds always.
LEMMA Invariant == Spec => []Inv
BY InitInv, NextInv, PTL DEF Spec

\* Whenever the 30 seconds are over and wherever the child is then, no
\* simulation is running when the driver comes back: pkill finds whatever
\* terminate has left, and without it the child has waited for the last one.
THEOREM LeavesNothingRunning == Spec => []NothingLeftRunning
<1>1. Inv => NothingLeftRunning
  BY DEF Inv, NothingLeftRunning, ChildEnded, RunsAwaited, Alive, WaitOf
<1> QED
  BY <1>1, Invariant, PTL

\* A program is never put together from the instructions of one version and the
\* data or addresses of another, however many invocations have been broken off
\* in the middle of their copies, unless a copy of this one has failed or a late
\* build has come in.
THEOREM MixesOnlyByCopy == Spec => []MixedOnlyByCopy
<1>1. Inv => MixedOnlyByCopy
  <2> SUFFICES ASSUME Inv, Good, NEW c \in Core, child = StartOf(c)
               PROVE  ~Mixed(test_exe[c])
    BY DEF MixedOnlyByCopy, Good
  <2>1. test_exe[c] = [f \in File |-> want]
    BY DEF Inv, Fresh, TestFresh, IsOf
  <2> QED
    BY <2>1 DEF Mixed, File
<1> QED
  BY <1>1, Invariant, PTL

\* An invocation in which nothing has failed leaves the outputs of the program
\* it was asked for, for any number of programs and of earlier invocations.
THEOREM LeavesItsOutputs == Spec => []OutputsUnlessFailed
<1>1. Inv => OutputsUnlessFailed
  BY DEF Inv, OutputsUnlessFailed, Fresh, OutputFresh, After, Good
<1> QED
  BY <1>1, Invariant, PTL
=============================================================================
