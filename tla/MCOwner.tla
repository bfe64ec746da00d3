------------------------------ MODULE MCOwner ------------------------------
EXTENDS Owner, TLC

CONSTANTS o, r1, r2, r3, a1, a2, f1, f2

C(op, by, who, until, f) ==
  [op |-> op, by |-> by, who |-> who, until |-> until, file |-> f, dry |-> FALSE]

Share(w, u)  == C("share", o, w, u, f1)
Revoke(w)    == C("revoke", o, w, 0, f1)
Update(w, u) == C("update", o, w, u, f1)
Open(w)      == C("open", w, w, 0, f1)
Key(w)       == C("key", w, w, 0, f1)
Reassign(f)  == C("reassign", o, o, 0, f)
DryRun(f)    == [Reassign(f) EXCEPT !.dry = TRUE]
Join(a)      == C("join", a, a, 0, f1)
Audit        == C("audit", a1, a1, 0, f1)

M(cmds, rows, leaves, fs) == [cmds |-> cmds, rows |-> rows, leaves |-> leaves, faults |-> fs]
MCMenus ==
  { M({Revoke(r1), Revoke(r2), Open(r2)}, {"active"}, 0, 0),
    M({Revoke(r1), Share(r1, None), Update(r1, 1)}, {"active"}, 0, 0),
    M({Update(r2, 1), Open(r2), Update(r1, None)}, Rows, 0, 1),
    M({Key(r3), Share(r3, 2), Open(r3)}, {"active"}, 0, 1),
    M({Revoke(o), Update(o, 2), Revoke(r1)}, {"active"}, 0, 0),
    M({Reassign(f1), Join(a2)}, {"active", "pending"}, 1, 1),
    M({DryRun(f1), Join(a1)}, {"active", "none", "foreign"}, 1, 1),
    M({Reassign(f1), DryRun(f1)}, {"active", "abandoned"}, 1, 0),
    M({Reassign(f2), Audit}, {"active", "none", "abandoned"}, 1, 1) }

\* The owner first, then two recipients; a page holds two entries.
MCList == << Entry(o, 0, o), Entry(r1, 0, r1), Entry(r2, 0, r2) >>

\* f1 is held by every archive of its snapshot, f2 by one of them.
MCHolders ==
  [f \in {f1, f2} |-> [S \in SUBSET {a1, a2} |->
     IF f = f1 THEN S ELSE IF a2 \in S THEN {a2} ELSE S]]
=============================================================================
