SPECIFICATION Spec
INVARIANTS
     DoctorExact  NoDirectDowngrade AddressPoliciesAgree  
CHECK_DEADLOCK FALSE
