--------------------------- MODULE WorldFile_proofs ---------------------------
(* What a crash can do to the save file, for any number of saves.               *)
EXTENDS WorldFile, TLAPS

\* Between writing and renaming, the temporary file holds a whole world.
TmpIsWritten == phase \in {"written", "removed"} => tmp = world

\* The empty world is a version.
LEMMA EmptyIsVersion == 0 \in Version
BY LastWorldAssumption DEF Version

\* The files hold what their names say in every reachable state.
THEOREM TypeCorrect == Spec => []TypeOK
<1>1. Init => TypeOK
  BY EmptyIsVersion DEF Init, TypeOK, Phase, Content
<1>2. TypeOK /\ [Next]_vars => TypeOK'
  <2> SUFFICES ASSUME TypeOK, [Next]_vars PROVE TypeOK'
    OBVIOUS
  <2> USE DEF TypeOK, Phase, Content
  <2>1. CASE ChangeWorld
    BY <2>1, LastWorldAssumption DEF ChangeWorld, Version
  <2>2. CASE Startup
    BY <2>2, EmptyIsVersion DEF Startup
  <2>3. CASE Crash
    BY <2>3 DEF Crash
  <2>4. CASE Autosave \/ ConsoleSave \/ ShutdownSave \/ OpenFails
    BY <2>4 DEF Autosave, ConsoleSave, ShutdownSave, OpenTmp, OpenFails
  <2>5. CASE SaveStep
    BY <2>5 DEF SaveStep, WriteTmp, RenameTmp, RenameAgain, SaveDone
  <2>6. CASE UNCHANGED vars
    BY <2>6 DEF vars
  <2> QED BY <2>1, <2>2, <2>3, <2>4, <2>5, <2>6 DEF Next
<1> QED BY <1>1, <1>2, PTL DEF Spec

\* A restart loads the last completed save or none, as long as writes are whole.
THEOREM SaveIsWholeOrGone ==
    ASSUME ~ShortWrites
    PROVE  Spec => []FileIsLastSaveOrGone
<1> DEFINE Inv == FileIsLastSaveOrGone /\ TmpIsWritten
<1>1. Init => Inv
  BY ContentAssumption DEF Init, FileIsLastSaveOrGone, TmpIsWritten
<1>2. TypeOK /\ Inv /\ [Next]_vars => Inv'
  <2> SUFFICES ASSUME TypeOK, Inv, [Next]_vars PROVE Inv'
    OBVIOUS
  <2>1. CASE WriteTmp
    BY <2>1 DEF WriteTmp, FileIsLastSaveOrGone, TmpIsWritten
  <2>2. CASE RenameTmp \/ RenameAgain
    <3>1. tmp # Torn
      BY <2>2, ContentAssumption, LastWorldAssumption
         DEF RenameTmp, RenameAgain, TmpIsWritten, TypeOK, Version
    <3>2. CASE RenameTmp
      BY <3>1, <3>2, ContentAssumption DEF RenameTmp, SaveDone, FileIsLastSaveOrGone, TmpIsWritten
    <3>3. CASE RenameAgain
      BY <3>1, <3>3 DEF RenameAgain, SaveDone, FileIsLastSaveOrGone, TmpIsWritten
    <3> QED BY <2>2, <3>2, <3>3
  <2> QED BY <2>1, <2>2
          DEF Next, SaveStep, vars, FileIsLastSaveOrGone, TmpIsWritten, ChangeWorld, Startup,
              Crash, Autosave, ConsoleSave, ShutdownSave, OpenTmp, OpenFails
<1> QED BY <1>1, <1>2, TypeCorrect, PTL DEF Spec
=============================================================================
