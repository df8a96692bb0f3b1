------------------------------ MODULE MCTrips ------------------------------
EXTENDS Trips

=============================================================================
