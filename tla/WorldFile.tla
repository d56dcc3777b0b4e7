------------------------------ MODULE WorldFile ------------------------------
(***************************************************************************)
(* How the dedicated server writes its world to disk, file operation by    *)
(* file operation, and what a process that dies in between leaves behind.  *)
(*                                                                         *)
(* A world is a version number: 0 is the empty world of a fresh start.     *)
(* Saves (autosave, console, shutdown) run under m_mutex, so no handler    *)
(* changes the world and no second save starts while one is under way;     *)
(* only the death of the process interrupts one. The build is for Windows, *)
(* whose std::rename does not replace a file.                              *)
(***************************************************************************)
EXTENDS Naturals

CONSTANTS
    ShortWrites,    \* a full disk may cut the write short
    Absent,         \* there is no such file
    Torn,           \* the file holds half a world
    LastWorld       \* bound on world versions

ASSUME ShortWritesAssumption == ShortWrites \in BOOLEAN
ASSUME ContentAssumption == Absent \notin Nat /\ Torn \notin Nat /\ Absent # Torn
ASSUME LastWorldAssumption == LastWorld \in Nat

VARIABLES
    phase,          \* "down", "up", or where SaveWorldToFile stands
    stopping,       \* the save under way is the one of the shutdown
    world,          \* the version in memory
    clock,          \* the last version number given out
    file,           \* the save file
    tmp,            \* its .tmp neighbour
    lastSave        \* history: the last version a rename put in place

vars == <<phase, stopping, world, clock, file, tmp, lastSave>>

Version == 0 .. LastWorld
Content == Version \cup {Absent, Torn}
Phase == {"down", "up", "opened", "written", "removed"}

-----------------------------------------------------------------------------
(* The server *)

\* Handlers change the world; it may become the empty one again (the last player
\* leaves with its entities).
ChangeWorld ==
    /\ phase = "up"
    /\ \/ /\ clock < LastWorld
          /\ clock' = clock + 1
          /\ world' = clock + 1
       \/ /\ world' = 0
          /\ UNCHANGED clock
    /\ UNCHANGED <<phase, stopping, file, tmp, lastSave>>

\* LoadWorld: without a file, or with one that cannot be parsed, the server
\* starts fresh.
Startup ==
    /\ phase = "down"
    /\ phase' = "up"
    /\ stopping' = FALSE
    /\ world' = IF file \in Version THEN file ELSE 0
    /\ UNCHANGED <<clock, file, tmp, lastSave>>

Crash ==
    /\ phase # "down"
    /\ phase' = "down"
    /\ UNCHANGED <<stopping, world, clock, file, tmp, lastSave>>

-----------------------------------------------------------------------------
(* SaveWorldToFile *)

\* Opening truncates the temporary file.
OpenTmp ==
    /\ phase = "up"
    /\ phase' = "opened"
    /\ tmp' = Torn
    /\ UNCHANGED <<world, clock, file, lastSave>>

\* Mutant of Autosave: the timer is not started again after the first save.
AutosaveOnce == OpenTmp /\ world # 0 /\ file = Absent /\ stopping' = FALSE

\* Update saves once a minute, unless there is no entity; the console's "save"
\* and the shutdown always do.
Autosave == OpenTmp /\ world # 0 /\ stopping' = FALSE
ConsoleSave == OpenTmp /\ stopping' = FALSE
ShutdownSave == OpenTmp /\ stopping' = TRUE

\* The file cannot be opened: nothing is saved; a shutdown goes on without.
OpenFails ==
    /\ phase = "up"
    /\ phase' \in {"up", "down"}
    /\ UNCHANGED <<stopping, world, clock, file, tmp, lastSave>>

\* The stream's state is not looked at after writing and closing.
WriteTmp ==
    /\ phase = "opened"
    /\ phase' = "written"
    /\ tmp' = world \/ (ShortWrites /\ tmp' = Torn)
    /\ UNCHANGED <<stopping, world, clock, file, lastSave>>

SaveDone == phase' = IF stopping THEN "down" ELSE "up"

\* Mutant of RenameTmp: the rename does not wait for the contents.
RenameUnwritten ==
    /\ phase \in {"opened", "written"}
    /\ file' = tmp
    /\ lastSave' = tmp
    /\ tmp' = Absent
    /\ SaveDone
    /\ UNCHANGED <<stopping, world, clock>>

\* The first rename fails if there is a save file, which is then removed.
RenameTmp ==
    /\ phase = "written"
    /\ IF file = Absent
         THEN /\ file' = tmp
              /\ lastSave' = tmp
              /\ tmp' = Absent
              /\ SaveDone
         ELSE /\ file' = Absent
              /\ phase' = "removed"
              /\ UNCHANGED <<tmp, lastSave>>
    /\ UNCHANGED <<stopping, world, clock>>

\* The second rename may fail as well (the temporary file is in use); the save is
\* then reported as failed.
RenameAgain ==
    /\ phase = "removed"
    /\ SaveDone
    /\ \/ /\ file' = tmp
          /\ lastSave' = tmp
          /\ tmp' = Absent
       \/ UNCHANGED <<file, tmp, lastSave>>
    /\ UNCHANGED <<stopping, world, clock>>

-----------------------------------------------------------------------------

Init ==
    /\ phase = "down"
    /\ stopping = FALSE
    /\ world = 0 /\ clock = 0
    /\ file = Absent /\ tmp = Absent /\ lastSave = Absent

SaveStep == WriteTmp \/ RenameTmp \/ RenameAgain

Next ==
    \/ ChangeWorld \/ Startup \/ Crash
    \/ Autosave \/ ConsoleSave \/ ShutdownSave \/ OpenFails
    \/ SaveStep

Spec == Init /\ [][Next]_vars

\* The main loop ticks for ever and finishes the save it started; its autosave
\* timer fires again and again while the server is up, and neither opening the
\* temporary file nor renaming it fails every time.
FairSpec ==
    Spec /\ WF_vars(SaveStep) /\ SF_vars(Autosave) /\ SF_vars(RenameAgain /\ tmp' = Absent)

-----------------------------------------------------------------------------
(* Correctness *)

\* Type correctness of the server and of the two files.
TypeOK ==
    /\ phase \in Phase
    /\ stopping \in BOOLEAN
    /\ world \in Version /\ clock \in Version
    /\ file \in Content /\ tmp \in Content /\ lastSave \in Content

\* Whenever the process dies, the file holds the last save that was completed:
\* never nothing, never half of one ("Atomic write: write to temp file, then
\* rename (safe on NTFS)", SaveWorldToFile).
FileIsLastSave == file = lastSave /\ file # Torn

\* Whenever the process dies, the save may be gone, but a restart never loads half a
\* world or one older than the last save (SaveWorldToFile, LoadWorld).
FileIsLastSaveOrGone == file \in {lastSave, Absent} /\ file # Torn

\* A world with entities that stays as it is reaches the disk, whichever saves
\* fail before.
WorldReachesDisk ==
    \A v \in Version \ {0} :
       (phase = "up" /\ world = v) ~> (file = v \/ world # v \/ phase = "down")
=============================================================================
