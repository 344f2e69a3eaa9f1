------------------------------ MODULE MCStorage ------------------------------
EXTENDS Storage

Driving(depth, does) == [depth |-> depth, does |-> does]
GuestKinds == {Driving(2, {"reset"}), Driving(1, {"mask", "reset"}), Driving(1, {"share"})}
==============================================================================
