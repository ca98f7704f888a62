CONSTANTS
  Users = {u1, u2}
  Groups = {g1, g2}
  NoGroup = NoGroup
  NoPlace = NoPlace
  Workers = {w1, w2}
  MaxRequests = 3
  MaxChanges = 1
SYMMETRY Alike
SPECIFICATION Spec
INVARIANTS TypeOK FollowsHost 
PROPERTY InviteesUntouched
CHECK_DEADLOCK FALSE
