------------------------- MODULE MCEncryptedStore --------------------------
(* Instances of EncryptedStore for TLC.                                       *)
EXTENDS EncryptedStore, SequencesExt

(* A fact derived from a communication, and two identities of one person.     *)
TwoSources == [r \in Records |-> IF r = "fact" THEN "mail" ELSE r]
Kinds == [r \in Records |-> CASE r = "mail" -> "source_item"
                              [] r = "fact" -> "normalized_fact"
                              [] OTHER -> "identity"]
OneName == [r \in Records |-> "ann"]
ExternalIds == [r \in Records |-> "message"]

Manifest(id, from, to, kinds, merges) ==
    [id |-> id, signed |-> TRUE, from |-> from, to |-> to, maps |-> [k \in kinds |-> Family(k)],
     merges |-> merges, conversation |-> "inbox"]

Merge(target) == [sources |-> {"ann1", "ann2"}, target |-> target, name |-> "ann"]

(* Everything with a merge; the same into the identifier of the message; the  *)
(* facts once more, after the first; and one whose signature is stale.        *)
TwoSteps ==
    LET all == {"identity", "source_item", "normalized_fact"} IN
    { Manifest("m1", 1, 2, all, {Merge("ann")}), Manifest("m2", 1, 3, all, {Merge("message")}),
      Manifest("m3", 2, 3, {"normalized_fact"}, {}),
      [Manifest("m4", 1, 2, {"identity"}, {}) EXCEPT !.signed = FALSE] }

Household ==
    FoldLeft(LAMBDA d, r : Created(d, r, 0), EmptyDatabase, <<"ann1", "ann2", "mail">>)

(* A dream and a goal under it.                                               *)
TwoParents == [g \in Goals |-> "dream"]

OneDeadline == [x \in Memories |-> 2]

(* Two activities abandoned twice each after the same context, the first of   *)
(* them forgotten early, and three agreeing runs of one procedure.            *)
Abandoned == [o \in Observations |->
    CASE o = "o1" -> [group |-> "advice", what |-> "walk", until |-> 1]
      [] o = "o2" -> [group |-> "advice", what |-> "walk", until |-> 9]
      [] o \in {"o3", "o4"} -> [group |-> "advice", what |-> "swim", until |-> 9]
      [] OTHER -> [group |-> "skill", what |-> "steps", until |-> 9]]

ObservationOrder == <<"o1", "o2", "o3", "o4", "s1", "s2", "s3">>

GroupOrder == <<"skill", "advice">>

Seen(os) == FoldLeft(LAMBDA d, o : ObservationRecorded(d, o, 0), EmptyDatabase, os)

(* A memory and a backup that was registered before memories were indexed.    *)
Told == Remembered(EmptyDatabase, "diet", 0)
Legacy == [Told EXCEPT !.catalog[1] =
              [status |-> "active", at |-> 0, records |-> {}, memories |-> {}, covered |-> FALSE]]

(* Migrations between deletions, backups and restores, and between changes.   *)
Migrations ==
    { Scenario({"fact", "migrate", "delete", "backup", "restore", "crash"},
               Household, <<>>, 0, 9, 1, 1),
      Scenario({"records", "fact", "migrate", "crash"}, Household, <<>>, 0, 9, 2, 0) }

Everyday ==
    { (* retention, deletion, backups, restores and crashes                  *)
      Scenario({"records", "mail", "fact", "delete", "expiry", "backup", "restore", "crash"},
               EmptyDatabase, <<>>, 2, 4, 1, 2),
      (* late stamps and exports under pruning                               *)
      Scenario({"records", "mail", "fact", "expiry", "late", "export"}, EmptyDatabase, <<>>, 3, 5, 2, 0),
      (* memories and a legacy backup                                        *)
      Scenario({"memory", "backup", "restore", "crash", "expiry"}, Legacy, <<Told>>, 2, 4, 3, 2),
      (* lessons learned, corrected, deleted and learned again               *)
      Scenario({"learning", "o1", "o4", "crash"}, Seen(<<"o1", "o2", "o3">>), <<>>, 1, 11, 1, 0),
      Scenario({"learning", "s1", "crash"}, Seen(<<"s1", "s2", "s3">>), <<>>, 0, 8, 1, 0),
      (* refused duplicates and the other repositories                       *)
      Scenario({"goals", "records", "mail", "fact", "devices", "delete", "backup", "crash"},
               EmptyDatabase, <<>>, 0, 5, 1, 1) }
    \cup Migrations
=============================================================================
