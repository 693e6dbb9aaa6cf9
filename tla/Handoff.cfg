\* One letter that may be posted twice, and two users at the desk.  Once it is dealt with all rest.
SPECIFICATION Spec
CONSTANTS
    Letters = {l1}
    Messages = {m1, m2}
    Escalations = {e1, e2}
    Users = {u1, u2}
SYMMETRY Symmetric
CHECK_DEADLOCK FALSE
INVARIANTS TypeOK NothingSlipsThrough RepliesNameTheirEscalation ResolvedOnce
