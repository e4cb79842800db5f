----------------------------- MODULE PayTables -----------------------------
(***************************************************************************)
(* What an employee is paid: gross pay, tax (PPh 21), social insurance     *)
(* (BPJS) and net pay of one month, as functions. Amounts are whole units  *)
(* of 50,000 IDR, of which every bound of the tables is a multiple; rates  *)
(* are in basis points, so that a tax of 1 is 5 IDR and nothing is ever    *)
(* rounded. The only state is one contract, whose pay is raised unit by    *)
(* unit, so that every pay and every raise is looked at.                   *)
(*                                                                         *)
(* A name with an underscore is a faulty variant of the definition it      *)
(* precedes, as in Dormitory.                                              *)
(***************************************************************************)
EXTENDS Integers, SequencesExt

VARIABLES
  employment_type,
  tax_config,
  gross

vars == <<employment_type, tax_config, gross>>

\* One unit above the highest bound: nothing changes from there on.
TopGross == 66700 \div 50 + 1

NoBound == TopGross + 1

\* A bracket is an upper bound, exclusive, and its rate.
TER_A ==
  <<<<108, 0>>, <<113, 25>>, <<119, 50>>, <<126, 75>>, <<135, 100>>,
    <<150, 125>>, <<171, 150>>, <<193, 175>>, <<201, 200>>, <<207, 225>>,
    <<214, 250>>, <<221, 300>>, <<232, 350>>, <<250, 400>>, <<275, 500>>,
    <<302, 600>>, <<339, 700>>, <<395, 800>>, <<483, 900>>, <<529, 1000>>,
    <<560, 1100>>, <<601, 1200>>, <<648, 1300>>, <<708, 1400>>, <<782, 1500>>,
    <<877, 1600>>, <<956, 1700>>, <<1028, 1800>>, <<1126, 1900>>, <<1244, 2000>>,
    <<NoBound, 3400>>>>

TER_B ==
  <<<<124, 0>>, <<130, 25>>, <<137, 50>>, <<146, 75>>, <<184, 100>>,
    <<215, 150>>, <<225, 175>>, <<232, 200>>, <<252, 250>>, <<272, 300>>,
    <<299, 400>>, <<328, 500>>, <<369, 600>>, <<437, 700>>, <<520, 800>>,
    <<554, 900>>, <<587, 1000>>, <<629, 1100>>, <<679, 1200>>, <<742, 1300>>,
    <<822, 1400>>, <<916, 1500>>, <<990, 1600>>, <<1076, 1700>>, <<1170, 1800>>,
    <<1280, 1900>>, <<NoBound, 3400>>>>

TER_C ==
  <<<<132, 0>>, <<139, 25>>, <<147, 50>>, <<156, 75>>, <<177, 100>>,
    <<196, 150>>, <<219, 175>>, <<224, 200>>, <<241, 250>>, <<259, 300>>,
    <<283, 350>>, <<311, 400>>, <<341, 500>>, <<390, 600>>, <<454, 700>>,
    <<532, 800>>, <<562, 900>>, <<602, 1000>>, <<652, 1100>>, <<708, 1200>>,
    <<778, 1300>>, <<860, 1400>>, <<948, 1500>>, <<1024, 1600>>, <<1116, 1700>>,
    <<1208, 1800>>, <<1334, 1900>>, <<NoBound, 3400>>>>

\* _PTKP_TO_TABLE, with its default for a status it does not list.
TableOf(ptkp_status) ==
  CASE ptkp_status \in {"K/0", "TK/1"} -> TER_B
    [] ptkp_status \in {"K/1", "K/2", "K/3"} -> TER_C
    [] OTHER -> TER_A

\* The first bracket whose bound is above.
IsUnder_Inclusive(pay, bracket) == pay <= bracket[1]
IsUnder(pay, bracket) == pay < bracket[1]

lookup_ter_rate(pay, table) ==
  table[SelectInSeq(table, LAMBDA bracket : IsUnder(pay, bracket))][2]

-----------------------------------------------------------------------------
Mandatory == {"full_time", "part_time"}
Honorary == {"honorer", "honorary"}
EmploymentType == Mandatory \cup Honorary \cup {"internship", "freelance"}

\* "none" is a contract without tax_config or with a method that the code does
\* not know, "other" stands for the statuses the code does not list.
PtkpStatus == {"TK/0", "K/0", "TK/1", "K/1", "K/2", "K/3", "other"}
TaxConfig ==
  [method : {"none", "exempt"}]
  \cup [method : {"flat"}, rate : {250}]
  \cup [method : {"ter"}, ptkp_status : PtkpStatus]

\* The table a contract is taxed by, where it is one.
UsesTable ==
  \/ tax_config.method = "ter"
  \/ tax_config.method = "none" /\ employment_type \in Mandatory
Table == IF tax_config.method = "ter" THEN TableOf(tax_config.ptkp_status) ELSE TER_A

\* The rate calculate_pph21 applies to a gross pay.
TaxRate(pay) ==
  CASE UsesTable -> lookup_ter_rate(pay, Table)
    [] tax_config.method = "exempt" -> 0
    [] tax_config.method = "flat" -> tax_config.rate
    [] OTHER ->
         CASE employment_type = "internship" -> 0
           [] employment_type = "freelance" -> 500
           [] employment_type \in Honorary -> IF pay < 50 THEN 0 ELSE 250

calculate_pph21(pay) == pay * TaxRate(pay)

\* _get_insurance_defaults; a contract may override them.
Insurance ==
  [bpjs_kes_employee |-> IF employment_type \in Mandatory \cup Honorary THEN 100 ELSE 0,
   jht_employee |-> IF employment_type \in Mandatory THEN 200 ELSE 0,
   jp_employee |-> IF employment_type \in Mandatory THEN 100 ELSE 0]

calculate_bpjs_employee(pay, insurance) ==
  pay * (insurance.bpjs_kes_employee + insurance.jht_employee + insurance.jp_employee)

\* In units of 5 IDR, like the tax; deductions of one month are left out.
net_salary(pay) ==
  10000 * pay - calculate_pph21(pay) - calculate_bpjs_employee(pay, Insurance)

-----------------------------------------------------------------------------
Init ==
  /\ employment_type \in EmploymentType
  /\ tax_config \in TaxConfig
  /\ gross = 0

\* Gross pay is the salary, the allowances and what is added for one month.
Raise ==
  /\ gross < TopGross
  /\ gross' = gross + 1
  /\ UNCHANGED <<employment_type, tax_config>>

Next == Raise

Spec == Init /\ [][Next]_vars

-----------------------------------------------------------------------------
TypeOK ==
  /\ employment_type \in EmploymentType
  /\ tax_config \in TaxConfig
  /\ gross \in 0..TopGross

\* The bounds a gross pay has reached: of the table, or the one under which
\* honorary work is not taxed.
BoundsReached(pay) ==
  IF UsesTable
  THEN {i \in DOMAIN Table : Table[i][1] <= pay}
  ELSE IF tax_config.method = "none" /\ employment_type \in Honorary
  THEN {b \in {50} : b <= pay}
  ELSE {}

\* A raise is worth something: net pay grows with gross pay as long as no
\* bound is reached, and never by less than it would at the highest rate and
\* full insurance. At a bound, "exclusive" in the tables, all of the pay is
\* taxed at the next rate and net pay may fall. This needs the tables in
\* order, the bounds in the right bracket and every method to have its rate.
RaiseCountsInBracket ==
  [][gross' > gross /\ BoundsReached(gross') = BoundsReached(gross) =>
       net_salary(gross') - net_salary(gross) \in (10000 - 3400 - 400)..10000]_vars
=============================================================================
