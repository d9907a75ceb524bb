----------------------------- MODULE MCCrowdSec -----------------------------
EXTENDS CrowdSec

CONSTANTS banShort, banLong, captcha, lapi1, lapi2

Deadline == [d \in Decision |-> IF d = banShort THEN 1 ELSE Never]
=============================================================================
