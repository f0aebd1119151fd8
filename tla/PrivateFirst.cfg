CONSTANT Families <- MemberFamily
SPECIFICATION Spec
CHECK_DEADLOCK FALSE
INVARIANT MembersInOrder
