---------------------------- MODULE MCSupervisor -----------------------------
EXTENDS Supervisor

CONSTANTS q1, q2

=============================================================================
