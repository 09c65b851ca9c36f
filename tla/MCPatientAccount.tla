-------------------------- MODULE MCPatientAccount --------------------------
(* Constants of PatientAccount for TLC.                                    *)
EXTENDS PatientAccount

CONSTANTS c1, c2, d1, d2

MCValue == [c \in Challenge |-> IF c = c1 THEN 1 ELSE 2]

\* The devices are interchangeable.
DeviceSymmetry == Permutations(Device)
=============================================================================
