---------------------------- MODULE MCPublishSync ----------------------------
(* Small instances of PublishSync: two threads, three subscribers.           *)
EXTENDS PublishSync, TLC

CONSTANTS p1, p2, s1, s2, s3

===============================================================================
