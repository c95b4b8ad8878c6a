---------------------------- MODULE TwoPersonRule ----------------------------
(***************************************************************************)
(* What governance promises, without sessions, revisions and credentials:  *)
(* after one exceptional second administrator nobody becomes one, and no   *)
(* membership changes, unless one administrator of the tenant moved it,    *)
(* another agreed, and both are still administrators of the tenant; every  *)
(* motion is carried once, and two administrators remain.                  *)
(***************************************************************************)
EXTENDS Naturals, FiniteSets

CONSTANTS Principals, Motions, Grants

VARIABLES
    roster,     \* what each principal is granted
    motion,     \* what was moved, by whom, and who agreed
    invited,    \* principals who may become administrators, and by which motion
    opened      \* administrators made without a motion

rule == <<roster, motion, invited, opened>>

Absent == [role |-> "none", status |-> "absent", scope |-> "none"]
FullAdmin == [role |-> "admin", status |-> "active", scope |-> "tenant"]
NoMotion == [state |-> "absent", kind |-> "none", target |-> 0, to |-> Absent,
             by |-> 0, with |-> 0]

IsAdmin(g) == g.role = "admin" /\ g.status = "active"
Admins == {p \in Principals : IsAdmin(roster[p])}
Governors == {p \in Admins : roster[p].scope = "tenant"}

Init == /\ roster = [p \in Principals |-> Absent]
        /\ motion = [k \in Motions |-> NoMotion]
        /\ invited = {}
        /\ opened = 0

\* The first administrator, and one more while there is only one.
Open(p) == /\ roster[p] = Absent
           /\ opened < 2 /\ Cardinality(Admins) = opened
           /\ roster' = [roster EXCEPT ![p] = FullAdmin]
           /\ opened' = opened + 1
           /\ UNCHANGED <<motion, invited>>

\* One administrator is enough to enrol somebody who may not govern.
Enrol(p) == /\ roster[p] = Absent /\ Governors # {}
            /\ \E g \in Grants : /\ ~IsAdmin(g)
                                 /\ roster' = [roster EXCEPT ![p] = g]
            /\ UNCHANGED <<motion, invited, opened>>

Move(k) == /\ motion[k].state = "absent"
           /\ motion'[k].state = "moved" /\ motion'[k].by \in Governors
           /\ motion' = [motion EXCEPT ![k] = motion'[k]]
           /\ UNCHANGED <<roster, invited, opened>>

Agree(k) == /\ motion[k].state = "moved"
            /\ \E p \in Governors \ {motion[k].by} :
                 motion' = [motion EXCEPT ![k].state = "agreed", ![k].with = p]
            /\ UNCHANGED <<roster, invited, opened>>

Drop(k) == /\ motion[k].state \in {"moved", "agreed"}
           /\ motion' = [motion EXCEPT ![k] = [NoMotion EXCEPT !.state = "dropped"]]
           /\ UNCHANGED <<roster, invited, opened>>

Carry(k) == /\ motion[k].state = "agreed"
            /\ {motion[k].by, motion[k].with} \subseteq Governors
            /\ motion' = [motion EXCEPT ![k].state = "carried"]
            /\ UNCHANGED opened

\* What is changed is the membership the motion was about.
Change(k) ==
    LET p == motion[k].target IN
    /\ motion[k].kind = "membership" /\ Carry(k)
    /\ roster[p] # Absent
    /\ IsAdmin(roster[p]) /\ ~IsAdmin(motion[k].to) => Cardinality(Admins) > 2
    /\ roster' = [roster EXCEPT ![p] = motion[k].to]
    /\ UNCHANGED invited

Invite(k, p) == /\ motion[k].kind = "enrollment" /\ Carry(k)
                /\ invited' = invited \cup {<<p, k>>}
                /\ UNCHANGED roster

Accept(p) == /\ roster[p] = Absent
             /\ \E k \in Motions : <<p, k>> \in invited
             /\ roster' = [roster EXCEPT ![p] = FullAdmin]
             /\ UNCHANGED <<motion, invited, opened>>

Next == \/ \E p \in Principals : Open(p) \/ Enrol(p) \/ Accept(p)
        \/ \E k \in Motions : \/ Move(k) \/ Agree(k) \/ Drop(k) \/ Change(k)
                              \/ \E p \in Principals : Invite(k, p)

Spec == Init /\ [][Next]_rule
=============================================================================
