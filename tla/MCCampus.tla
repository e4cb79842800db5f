------------------------------ MODULE MCCampus ------------------------------
(***************************************************************************)
(* The smaller parts of the system beside each other, on small instances:  *)
(* grades, timetable, teachers and accounts, rulings, origins and pay.     *)
(* They read and write no table of one another except subjects, whose      *)
(* deletion each models for its own rows. So the steps of one can be       *)
(* dropped from the behaviour of another, and it is enough to follow one   *)
(* part, chosen at the start, while the others stand still.                *)
(***************************************************************************)
EXTENDS Gradebook, TLC

CONSTANTS
  Keys, Values,
  Days, Lessons,
  NIPs,
  Certificates, Leaves, AdmissionBatches, Applications, Users,
  Entries, Static

VARIABLES
  part,
  deleted, slots, curriculum, timetableReq,
  accounts, teachers, peopleReq,
  certificates, leaves, batches, applications, rulingsReq,
  rows, allowed, drifted, originsReq,
  employment_type, tax_config, gross

T == INSTANCE Timetable
       WITH Slots <- Keys, Times <- Values, Subjects <- Lessons, req <- timetableReq
P == INSTANCE People WITH Accounts <- Keys, Phones <- Values, req <- peopleReq
R == INSTANCE Rulings WITH Titles <- Values, Batches <- AdmissionBatches, req <- rulingsReq
O == INSTANCE Origins WITH Processes <- Keys, req <- originsReq
Pay == INSTANCE PayTables

timetable == <<deleted, slots, curriculum, timetableReq>>
people == <<accounts, teachers, peopleReq>>
rulings == <<certificates, leaves, batches, applications, rulingsReq>>
origins == <<rows, allowed, drifted, originsReq>>
pay == <<employment_type, tax_config, gross>>
all == <<part, vars, timetable, people, rulings, origins, pay>>

\* Batches of one grade, of two and of the same grade twice.
Grades(gs) == [i \in DOMAIN gs |-> [key |-> gs[i][1], score |-> gs[i][2]]]
SomeBatches(s, x, y) ==
  {Grades(<<<<<<s, x>>, 88>>>>), Grades(<<<<<<s, x>>, 85>>, <<<<s, y>>, 92>>>>)}
MCBatches == UNION {SomeBatches(s, x, y) : s \in Students, x \in Subjects, y \in Subjects}

Parts == {"grades", "timetable", "people", "certificates", "leaves", "admissions", "origins", "pay"}

CampusInit ==
  /\ part \in Parts
  /\ Init /\ T!Init /\ P!Init /\ R!Init /\ O!Init /\ Pay!Init
  /\ part # "pay" => employment_type = "full_time" /\ tax_config = [method |-> "none"]

CampusNext ==
  /\ UNCHANGED part
  /\ \/ part = "grades" /\ Next
        /\ UNCHANGED <<timetable, people, rulings, origins, pay>>
     \/ part = "timetable" /\ T!Next
        /\ UNCHANGED <<vars, people, rulings, origins, pay>>
     \/ part = "people" /\ P!Next
        /\ UNCHANGED <<vars, timetable, rulings, origins, pay>>
     \/ part = "certificates" /\ R!Next /\ UNCHANGED <<leaves, batches, applications>>
        /\ UNCHANGED <<vars, timetable, people, origins, pay>>
     \/ part = "leaves" /\ R!Next /\ UNCHANGED <<certificates, batches, applications>>
        /\ UNCHANGED <<vars, timetable, people, origins, pay>>
     \/ part = "admissions" /\ R!Next /\ UNCHANGED <<certificates, leaves>>
        /\ UNCHANGED <<vars, timetable, people, origins, pay>>
     \/ part = "origins" /\ O!Next
        /\ UNCHANGED <<vars, timetable, people, rulings, pay>>
     \/ part = "pay" /\ Pay!Next
        /\ UNCHANGED <<vars, timetable, people, rulings, origins>>

CampusSpec == CampusInit /\ [][CampusNext]_all

-----------------------------------------------------------------------------
\* The properties of the parts, where they are stated and explained.
OneLessonPerStart == T!OneLessonPerStart
PhoneIsLostOnlyToChanges == P!PhoneIsLostOnlyToChanges
PhonesPartOnlyByOthers == P!PhonesPartOnlyByOthers
RevokedChangesOnlyByStaleReads == R!RevokedChangesOnlyByStaleReads
ClosedBatchesGrowOnlyByStaleReads == R!ClosedBatchesGrowOnlyByStaleReads
ApprovedHasApprover == R!ApprovedHasApprover
MemoryMatchesTable == O!MemoryMatchesTable
RaiseCountsInBracket == Pay!RaiseCountsInBracket

\* Nothing tells one worker from another, nor one key of a table or one value
\* of a column; every part takes its keys and values from the same few.
Interchangeable == Permutations(Workers) \cup Permutations(Keys) \cup Permutations(Values)
=============================================================================
