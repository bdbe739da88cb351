------------------------------- MODULE Driver -------------------------------
(***************************************************************************)
(* update_mem.py: it compiles a program, assembles it, copies the memory   *)
(* images to both cores, builds and runs both simulations in a child       *)
(* process, and ends the child after 30 seconds. The working copies and    *)
(* the outputs stay from one invocation to the next.                       *)
(*                                                                         *)
(* A program here is one version of a source: two of them may have the     *)
(* same name. A file is the program it was made from. Time is not counted: *)
(* the 30 seconds may be over at any point of the child. Of its commands,  *)
(* the builds and the simulations take time, and go on without it.         *)
(***************************************************************************)
EXTENDS Integers, Sequences

CONSTANTS
  Programs, NameOf,  \* versions of programs, and the names of their folders
  MaxInvocations     \* bound of the number of invocations

VARIABLES
  invocations,
  want,       \* the program of this invocation
  parent,     \* where __main__ is
  child,      \* where run is
  copied,     \* how many of the six copies have been tried
  assembly,   \* ass2bin/<name>assemb.S
  generated,  \* the four files of ass2bin
  files,      \* imem.txt, dmem.txt and the header of each core
  building,   \* what the child's build of a core is made from
  orphans,    \* the builds whose child has been ended: core and images
  test_exe,   \* what each core's test.exe has been built from
  running,    \* what the simulation of each core has been built from
  output,     \* scoutput.txt and ppoutput.txt
  failed      \* what has gone wrong in this invocation

builds == <<building, orphans>>
vars == <<invocations, want, parent, child, copied, assembly, generated, files,
          builds, test_exe, running, output, failed>>

Core == {"scalar", "pipeline"}
File == {"imem", "dmem", "header"}
None == "none"    \* no such file, or none of these programs' as a whole
Nothing == [f \in File |-> None]

ASSUME ProgramsAssumption == None \notin Programs

Alive == child \notin {"finished", "exited", "killed"}

\* run_ass2bin's copies, in their order.
Copies_HeaderTwice ==
  << <<"pipeline", "imem">>, <<"pipeline", "dmem">>, <<"pipeline", "header">>,
     <<"scalar", "imem">>, <<"scalar", "dmem">>, <<"pipeline", "header">> >>
Copies == << <<"pipeline", "imem">>, <<"pipeline", "dmem">>, <<"pipeline", "header">>,
             <<"scalar", "imem">>, <<"scalar", "dmem">>, <<"scalar", "header">> >>

Init ==
  /\ invocations = 0
  /\ want = None
  /\ parent = "done" /\ child = "finished" /\ copied = 0
  /\ assembly = [n \in {NameOf[p] : p \in Programs} |-> None]
  /\ generated = None
  /\ files = [c \in Core |-> Nothing]
  /\ building = Nothing /\ orphans = {}
  /\ test_exe = [c \in Core |-> Nothing]
  /\ running = [c \in Core |-> Nothing]
  /\ output = [c \in Core |-> Nothing]
  /\ failed = {}

Start(p) ==
  /\ parent = "done" /\ invocations < MaxInvocations
  /\ invocations' = invocations + 1
  /\ want' = p
  /\ parent' = "sleep" /\ child' = "bench" /\ copied' = 0
  /\ failed' = {}
  /\ UNCHANGED <<assembly, generated, files, builds, test_exe, running, output>>

-----------------------------------------------------------------------------
(* The child. os.system returns a status; run_make looks at it, the copies *)
(* and the simulations do not.                                             *)

Main == <<invocations, want, parent>>

MakeBench ==
  /\ child = "bench"
  /\ \/ child' = "assembly" /\ UNCHANGED failed
     \/ child' = "exited" /\ failed' = failed \cup {"make"}
  /\ UNCHANGED <<Main, copied, assembly, generated, files, builds, test_exe, running, output>>

CopyAssembly ==
  /\ child = "assembly" /\ child' = "ass2bin"
  /\ \/ assembly' = [assembly EXCEPT ![NameOf[want]] = want] /\ UNCHANGED failed
     \/ failed' = failed \cup {"cp"} /\ UNCHANGED assembly
  /\ UNCHANGED <<Main, copied, generated, files, builds, test_exe, running, output>>

\* An exception, from a file that is not there or a line that is not
\* understood, ends the child.
Ass2bin ==
  /\ child = "ass2bin"
  /\ \/ /\ assembly[NameOf[want]] # None
        /\ generated' = assembly[NameOf[want]]
        /\ child' = "copy" /\ UNCHANGED failed
     \/ child' = "exited" /\ generated' = None /\ failed' = failed \cup {"ass2bin"}
  /\ UNCHANGED <<Main, copied, assembly, files, builds, test_exe, running, output>>

Copy ==
  /\ child = "copy" /\ copied < Len(Copies)
  /\ copied' = copied + 1
  /\ child' = IF copied' = Len(Copies) THEN "make scalar" ELSE child
  /\ LET c == Copies[copied'][1]
         f == Copies[copied'][2]
     IN  \/ files' = [files EXCEPT ![c][f] = generated] /\ UNCHANGED failed
         \/ failed' = failed \cup {"cp"} /\ UNCHANGED files
  /\ UNCHANGED <<Main, assembly, generated, builds, test_exe, running, output>>

\* make clean, and make: the images are compiled into test.exe, which make alone
\* would not do again, since no rule names them.
StartMake_WithoutClean(c, here, next) ==
  /\ child = here
  /\ \/ /\ None \notin {files[c]["imem"], files[c]["dmem"]}
        /\ building' = IF test_exe[c] = Nothing THEN files[c] ELSE test_exe[c]
        /\ child' = next /\ UNCHANGED failed
     \/ child' = "exited" /\ failed' = failed \cup {"make"} /\ UNCHANGED building
  /\ UNCHANGED <<Main, copied, assembly, generated, files, orphans, test_exe, running, output>>
StartMake(c, here, next) ==
  /\ child = here
  /\ test_exe' = [test_exe EXCEPT ![c] = Nothing]
  /\ \/ /\ None \notin {files[c]["imem"], files[c]["dmem"]}
        /\ building' = files[c]
        /\ child' = next /\ UNCHANGED failed
     \/ child' = "exited" /\ failed' = failed \cup {"make"} /\ UNCHANGED building
  /\ UNCHANGED <<Main, copied, assembly, generated, files, orphans, running, output>>

EndMake(c, here, next) ==
  /\ child = here /\ building' = Nothing
  /\ \/ /\ test_exe' = [test_exe EXCEPT ![c] = building]
        /\ child' = next /\ UNCHANGED failed
     \/ /\ child' = "exited" /\ failed' = failed \cup {"make"}
        /\ UNCHANGED test_exe
  /\ UNCHANGED <<Main, copied, assembly, generated, files, orphans, running, output>>

\* A build that has lost its child comes to its end, if ever, later: it writes
\* the object of its own images and links it, in between whatever a next child
\* is doing there.
BuildOf(c) == IF c = "scalar" THEN "build scalar" ELSE "build pipeline"
StartOf(c) == IF c = "scalar" THEN "start scalar" ELSE "start pipeline"
OrphanEnds ==
  /\ \E o \in orphans :
       LET c == o[1]
       IN  /\ orphans' = orphans \ {o}
           /\ test_exe' = [test_exe EXCEPT ![c] = o[2]]
           /\ building' \in IF child = BuildOf(c) THEN {building, o[2]} ELSE {building}
           /\ failed' = IF child \in {BuildOf(c), StartOf(c)}
                        THEN failed \cup {"late build"} ELSE failed
  /\ UNCHANGED <<Main, child, copied, assembly, generated, files, running, output>>

StartTest(c, here, next) ==
  /\ child = here /\ child' = next
  /\ running' = [running EXCEPT ![c] = test_exe[c]]
  /\ output' = [output EXCEPT ![c] = Nothing]
  /\ UNCHANGED <<Main, copied, assembly, generated, files, builds, test_exe, failed>>

\* A program that does not come to its end does not get here.
TestEnds(c) ==
  /\ running[c] # Nothing
  /\ running' = [running EXCEPT ![c] = Nothing]
  /\ output' = [output EXCEPT ![c] = running[c]]
  /\ UNCHANGED <<Main, child, copied, assembly, generated, files, builds, test_exe, failed>>

\* os.system waits for the command: sh takes "&>" as bash does.
Return(c, here, next) ==
  /\ child = here /\ child' = next
  /\ running[c] = Nothing
  /\ UNCHANGED <<Main, copied, assembly, generated, files, builds, test_exe, running, output, failed>>

Child == \/ MakeBench \/ CopyAssembly \/ Ass2bin \/ Copy
         \/ StartMake("scalar", "make scalar", "build scalar")
         \/ EndMake("scalar", "build scalar", "start scalar")
         \/ StartTest("scalar", "start scalar", "wait scalar")
         \/ Return("scalar", "wait scalar", "make pipeline")
         \/ StartMake("pipeline", "make pipeline", "build pipeline")
         \/ EndMake("pipeline", "build pipeline", "start pipeline")
         \/ StartTest("pipeline", "start pipeline", "wait pipeline")
         \/ Return("pipeline", "wait pipeline", "finished")

-----------------------------------------------------------------------------
(* The parent: sleep(30), is_alive, terminate and join, pkill.             *)

Files == <<copied, assembly, generated, files, test_exe>>

Wake_OnlyAfterChild ==
  /\ parent = "sleep" /\ ~Alive
  /\ parent' = "done"
  /\ UNCHANGED <<invocations, want, child, Files, builds, running, output, failed>>
Wake ==
  /\ parent = "sleep"
  /\ parent' = IF Alive THEN "terminate" ELSE "done"
  /\ UNCHANGED <<invocations, want, child, Files, builds, running, output, failed>>

\* Only the child gets the signal: what it has started outlives it.
Terminate_Unjoined ==
  /\ parent = "terminate" /\ parent' = "pkill"
  /\ failed' = failed \cup {"time"}
  /\ UNCHANGED <<invocations, want, child, Files, builds, running, output>>
Terminate ==
  /\ parent = "terminate" /\ parent' = "pkill"
  /\ child' = IF Alive THEN "killed" ELSE child
  /\ orphans' = orphans \cup {<<c, building>> : c \in {d \in Core : child = BuildOf(d)}}
  /\ building' = Nothing
  /\ failed' = failed \cup {"time"}
  /\ UNCHANGED <<invocations, want, Files, running, output>>

\* pkill finds the simulations by name; the compiler of a build has another.
Pkill ==
  /\ parent = "pkill" /\ parent' = "done"
  /\ running' = [c \in Core |-> Nothing]
  /\ UNCHANGED <<invocations, want, child, Files, builds, output, failed>>

Parent == Wake \/ Terminate \/ Pkill

Next == \/ Child \/ Parent \/ OrphanEnds
        \/ \E c \in Core : TestEnds(c)
        \/ \E p \in Programs : Start(p)

Spec == Init /\ [][Next]_vars

\* The clock of the parent does not stop. The child may take for ever.
FairSpec == Spec /\ WF_vars(Parent)

-----------------------------------------------------------------------------
IsOf(image, p) == image = [f \in File |-> p]
Mixed(image) == image.imem # image.dmem \/ image.imem # image.header

\* When nothing has failed in time, both outputs are those of the program asked
\* for, whatever earlier invocations left behind or broke off. A build that an
\* earlier one left running does no harm but from make clean of its core on to
\* the start of its simulation.
OutputsUnlessFailed ==
  parent = "done" /\ child = "finished" /\ invocations > 0 /\ failed = {} =>
    \A c \in Core : IsOf(output[c], want)

\* A simulation is built from the instructions of one program and the data or
\* the addresses of another only if a copy has failed in this invocation, or a
\* late build has replaced it; a copy cut short in an earlier one does not
\* matter.
MixedOnlyByCopy ==
  \/ {"cp", "late build"} \cap failed # {}
  \/ \A c \in Core : child = StartOf(c) => ~Mixed(test_exe[c])

\* No simulation runs on after the end, whenever the 30 seconds are over.
NothingLeftRunning == parent = "done" => \A c \in Core : running[c] = Nothing

\* The driver comes back from a program that does not.
ComesBack == [](parent = "sleep" => <>(parent = "done"))
=============================================================================
