----------------------------- MODULE MCEventBus -----------------------------
EXTENDS EventBus, TLC

CONSTANTS s1, s2, s3, saved, moved
MCSlots == {s1, s2, s3}
MCInterests == {{moved}, {saved, moved}}
AnySlot == Permutations(MCSlots)
=============================================================================
