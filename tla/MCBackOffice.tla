----------------------------- MODULE MCBackOffice -----------------------------
(***************************************************************************)
(* Instances for TLC of five parts of the back office that share no        *)
(* variable.  A behaviour is one of a single part: the feed of the         *)
(* platform, where one code is tried twice on one card; the alerts; the    *)
(* replacement of local codes; the backups; the reminders.                 *)
(***************************************************************************)
EXTENDS PlatformFeed, CodeReplacement, AlertDesk, Backups, Reminders, TLC

CONSTANTS c1, f1, f2, o1, o2, k1, h1, h2, e1, e2, i1, p1, ann, bob, masked,
          s1, w1, w2, x1, x2, d1, d2, a1,
          g1, t1, t2, m1, m2, u1

CONSTANT Offices      \* the parts to check
VARIABLE office

SameCode == [o \in Orders |-> c1]
OneCard == [o \in Orders |-> k1]
TwoAccounts == (o1 :> ann) @@ (o2 :> bob)
Masked == [o \in Orders |-> masked]

OneSale == [w \in Wares |-> s1]
Places == (w1 :> 1) @@ (w2 :> 2)

Pairs == {{h1, h2}, {h1, p1}, {h2, p1}, {e1, p1}, {i1, p1}, {e1, i1}}
PairsOrNone == Pairs \cup {{}}
Rivals == {{e1, e2}}

NoShift == {{}}
AllShifts == {{}, {g1, m1, m2}, {t1, t2, "desk"}, {t1, "desk", "admin"}}

Symmetry == Permutations(Hooks) \cup Permutations(Fresh)

officeVars == <<vars, replacementVars, deskVars, backupVars, reminderVars, office>>

OfficeInit ==
  /\ office \in Offices
  /\ Init /\ ReplacementInit /\ DeskInit /\ BackupInit /\ ReminderInit
  /\ (crew # {}) = (office = "feed")
  /\ (shift # {}) = (office = "alerts")

OfficeNext ==
  /\ UNCHANGED office
  /\ \/ /\ office = "feed" /\ Next
        /\ UNCHANGED <<replacementVars, deskVars, backupVars, reminderVars>>
     \/ /\ office = "alerts" /\ DeskNext
        /\ UNCHANGED <<vars, replacementVars, backupVars, reminderVars>>
     \/ /\ office = "codes" /\ ReplacementNext
        /\ UNCHANGED <<vars, deskVars, backupVars, reminderVars>>
     \/ /\ office = "backups" /\ BackupNext
        /\ UNCHANGED <<vars, replacementVars, deskVars, reminderVars>>
     \/ /\ office = "reminders" /\ ReminderNext
        /\ UNCHANGED <<vars, replacementVars, deskVars, backupVars>>

OfficeSpec == OfficeInit /\ [][OfficeNext]_officeVars
OfficeTypeOK == TypeOK /\ ReplacementTypeOK /\ DeskTypeOK /\ BackupTypeOK /\ ReminderTypeOK
=============================================================================
