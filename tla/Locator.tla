------------------------------- MODULE Locator -------------------------------
(***************************************************************************)
(* The database of the geo locator (src/geo/locator.go): what a start of   *)
(* the flagship does with the files in its directory, and what it leaves   *)
(* there when it fails or is killed.                                       *)
(*                                                                         *)
(* NewLocator keeps the newest file, removes the others, and opens it, or  *)
(* downloads a new one when there is none or the newest is too old.  It    *)
(* returns any error, upon which the main program panics; somebody starts  *)
(* it again.  A file counts by its age in days; those too old are alike,   *)
(* of which the newest is kept here.  A file is "part" when its writing    *)
(* was interrupted; it has the time and the name of a whole one.           *)
(*                                                                         *)
(* Only this program changes the directory, and a start takes less than a  *)
(* day.                                                                    *)
(***************************************************************************)
EXTENDS Naturals

CONSTANTS
  MaxAge,      (* dbMaxAge, in days                                        *)
  MaxCrashes   (* bound of the model: times the process is killed          *)

ASSUME AgeAssumption == MaxAge \in Nat
ASSUME CrashAssumption == MaxCrashes \in Nat

TooOld == MaxAge + 1
Ages == 0 .. TooOld
Nothing == TooOld + 1   (* newestFile = ""                                 *)

VARIABLES
  files,       (* what is in the directory, by age                         *)
  pc,          (* where the process is                                     *)
  newest,      (* newestFile                                               *)
  crashes      (* times the process was killed so far                      *)

dbVars == <<files, pc, newest, crashes>>

DbInit ==
  /\ files = [a \in Ages |-> "none"]
  /\ pc = "down"
  /\ newest = Nothing
  /\ crashes = 0

(* A day passes.                                                            *)
Day ==
  /\ pc \in {"down", "up"}
  /\ files' = [a \in Ages |->
       IF a = 0 THEN "none"
       ELSE IF a = TooOld /\ files[MaxAge] = "none" THEN files[TooOld]
       ELSE files[a - 1]]
  /\ UNCHANGED <<pc, newest, crashes>>

Start ==
  /\ pc = "down"
  /\ pc' = "scan"
  /\ UNCHANGED <<files, newest, crashes>>

(* The error goes up to main, which panics.                                 *)
Fails == pc' = "down"

Newest(a) == files[a] # "none" /\ \A b \in 0 .. a - 1 : files[b] = "none"

(* Mutant of Scan: the comparison of the times is the wrong way round.      *)
ScanOldest ==
  /\ pc = "scan"
  /\ \/ /\ \A a \in Ages : files[a] = "none"
        /\ newest' = Nothing
     \/ \E a \in Ages :
          /\ files[a] # "none" /\ \A b \in a + 1 .. TooOld : files[b] = "none"
          /\ newest' = a
  /\ pc' = "remove"
  /\ UNCHANGED <<files, crashes>>

(* loadDatabase looks for the newest file.                                  *)
Scan ==
  /\ pc = "scan"
  /\ \/ /\ pc' = "remove"
        /\ \/ \E a \in Ages : Newest(a) /\ newest' = a
           \/ (\A a \in Ages : files[a] = "none") /\ newest' = Nothing
     \/ Fails /\ UNCHANGED newest
  /\ UNCHANGED <<files, crashes>>

(* Mutant of Remove: any file will do.                                      *)
RemoveAndMount ==
  /\ pc = "remove"
  /\ \E left \in SUBSET Ages :
       files' = [a \in Ages |-> IF a = newest \/ a \in left THEN files[a]
                                                            ELSE "none"]
  /\ pc' = IF newest = Nothing THEN "download" ELSE "mount"
  /\ UNCHANGED <<newest, crashes>>

(* It removes the others, as far as they can be removed, and decides.       *)
Remove ==
  /\ pc = "remove"
  /\ \E left \in SUBSET Ages :
       files' = [a \in Ages |-> IF a = newest \/ a \in left THEN files[a]
                                                            ELSE "none"]
  /\ pc' = IF newest > MaxAge THEN "download" ELSE "mount"
  /\ UNCHANGED <<newest, crashes>>

(* updateDatabase: download and unpacking ...                               *)
Download ==
  /\ pc = "download"
  /\ pc' = "write" \/ Fails
  /\ UNCHANGED <<files, newest, crashes>>

(* ... a file with the date of today, written in place ...                  *)
CreateFile ==
  /\ pc = "write"
  /\ files' = [files EXCEPT ![0] = "part"]
  /\ pc' = "writing"
  /\ newest' = 0
  /\ UNCHANGED crashes

WriteFile ==
  /\ pc = "writing"
  /\ \/ files' = [files EXCEPT ![0] = "good"] /\ pc' = "mount"
     \/ Fails /\ UNCHANGED files
  /\ UNCHANGED <<newest, crashes>>

(* ... and opened, like one that was found.                                 *)
Mount ==
  /\ pc = "mount"
  /\ IF files[newest] = "good" THEN pc' = "up" ELSE Fails
  /\ UNCHANGED <<files, newest, crashes>>

(* The flagship ends.                                                       *)
Stop ==
  /\ pc = "up"
  /\ Fails
  /\ UNCHANGED <<files, newest, crashes>>

(* It is killed in the middle of its start.                                 *)
Crash ==
  /\ pc \notin {"down", "up"}
  /\ crashes < MaxCrashes
  /\ crashes' = crashes + 1
  /\ Fails
  /\ UNCHANGED <<files, newest>>

Load == Scan \/ Remove \/ Download \/ CreateFile \/ WriteFile \/ Mount

DbNext == Start \/ Load \/ Stop \/ Crash \/ Day

DbSpec == DbInit /\ [][DbNext]_dbVars

(* The program goes on, it is started again, and time passes.  A directory  *)
(* that can be read, a download and a write that are tried again and again  *)
(* succeed at some time.                                                    *)
DbFairness ==
  /\ WF_dbVars(Start) /\ WF_dbVars(Load) /\ SF_dbVars(Day)
  /\ SF_dbVars(Scan /\ pc' # "down")
  /\ SF_dbVars(Download /\ pc' # "down")
  /\ SF_dbVars(WriteFile /\ pc' # "down")

DbFairSpec == DbSpec /\ DbFairness

-----------------------------------------------------------------------------

(* Every variable has the values the code can give it.                      *)
DbTypeOK ==
  /\ files \in [Ages -> {"none", "part", "good"}]
  /\ pc \in {"down", "scan", "remove", "download", "write", "writing",
             "mount", "up"}
  /\ newest \in Ages \cup {Nothing}
  /\ crashes \in 0 .. MaxCrashes

(* A whole database that is recent and the newest file in the directory is  *)
(* never removed or written over, whatever fails and whenever the process   *)
(* is killed: the next start finds it.                                      *)
NewestSurvives ==
  [][\A a \in 0 .. MaxAge :
       Newest(a) /\ files[a] = "good" /\ ~Day => files'[a] = "good"]_dbVars

(* The flagship comes up again after any failure.  A file whose writing was *)
(* interrupted is taken for the database until it is too old, and fails     *)
(* every start in between, but not for ever.                                *)
UpAgain == (pc = "down") ~> (pc = "up")
=============================================================================
