-------------------------- MODULE ServiceCommandsMC -------------------------
(* Instances of ServiceCommands: updates of three generations, from workers  *)
(* that do and do not know the quota fields, quota-only updates and removals.*)
EXTENDS ServiceCommands

CONSTANTS org, otherOrg, web, batch, backup, alice, bob, ceiling, h1, h2, h3

Update(gen, who, work, source, owner, limit, only) ==
    [gen |-> gen, org |-> who, work |-> work, source |-> source,
     owner |-> owner, ceiling |-> limit, quotaOnly |-> only]

SomeUpdates ==
    {Update(1, org, web, None, None, None, FALSE),
     Update(1, org, web, None, None, ceiling, TRUE),
     Update(2, org, web, None, None, ceiling, TRUE),
     Update(2, org, batch, None, alice, ceiling, FALSE),
     Update(2, org, batch, None, None, None, FALSE),
     Update(3, org, web, None, bob, None, FALSE),
     Update(2, otherOrg, web, backup, None, None, FALSE)}

SomeRemovals == {[gen |-> g] : g \in {1, 2}}
=============================================================================
