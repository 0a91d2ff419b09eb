------------------------------ MODULE MCOffice ------------------------------
(***************************************************************************)
(* Model checking of seven parts of the system that share no state, each   *)
(* alone in its behaviours.                                                *)
(***************************************************************************)
EXTENDS ParkingBooking, BeaconDesks, SetupTokens, NfcEnrolment, ApiClient, Notices, OrgMail

VARIABLE part

office == <<parking, beaconDesks, setup, enrolment, client, noticed, orgMail, control, part>>

\* How many requests and how much time each part gets.
RequestBound == [parking |-> 3, beacons |-> 4, setup |-> 5, enrolment |-> 4,
                 client |-> 5, notices |-> 3, mail |-> 5]
TimeBound == [parking |-> 2, beacons |-> 0, setup |-> 0, enrolment |-> 3,
              client |-> 4, notices |-> 2, mail |-> 0]

OfficeInit ==
  /\ ParkingInit /\ BeaconDesksInit /\ SetupInit /\ EnrolmentInit
  /\ ClientInit /\ NoticesInit /\ OrgMailInit
  /\ part \in DOMAIN RequestBound

OfficeNext ==
  /\ UNCHANGED part
  /\ \/ /\ part = "parking" /\ ParkingNext
        /\ UNCHANGED <<beaconDesks, setup, enrolment, client, noticed, orgMail>>
     \/ /\ part = "beacons" /\ BeaconDesksNext
        /\ UNCHANGED <<parking, setup, enrolment, client, noticed, orgMail>>
     \/ /\ part = "setup" /\ SetupNext
        /\ UNCHANGED <<parking, beaconDesks, enrolment, client, noticed, orgMail>>
     \/ /\ part = "enrolment" /\ EnrolmentNext
        /\ UNCHANGED <<parking, beaconDesks, setup, client, noticed, orgMail>>
     \/ /\ part = "client" /\ ClientNext
        /\ UNCHANGED <<parking, beaconDesks, setup, enrolment, noticed, orgMail>>
     \/ /\ part = "notices" /\ NoticesNext
        /\ UNCHANGED <<parking, beaconDesks, setup, enrolment, client, orgMail>>
     \/ /\ part = "mail" /\ OrgMailNext
        /\ UNCHANGED <<parking, beaconDesks, setup, enrolment, client, noticed>>
  /\ requests' <= RequestBound[part] /\ now' <= TimeBound[part]

OfficeSpec == OfficeInit /\ [][OfficeNext]_office

OfficeTypeOK ==
  /\ ParkingTypeOK /\ BeaconDesksTypeOK /\ SetupTypeOK /\ EnrolmentTypeOK
  /\ ClientTypeOK /\ NoticesTypeOK /\ OrgMailTypeOK
=============================================================================
