----------------------------- MODULE MCPoolPlan -----------------------------
(* Small instances of PoolPlan for TLC. *)
EXTENDS PoolPlan
CONSTANTS s1, s2, s3
ThreeSeeds == <<s1, s2, s3>>
TwoSeeds == <<s1, s2>>
=============================================================================
