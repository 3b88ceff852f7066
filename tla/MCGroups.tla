------------------------------ MODULE MCGroups ------------------------------
(* Groups and GroupContent on small instances.                             *)
EXTENDS GroupContent, TLC

\* Handlers, and users, differ in nothing but their names.
Symmetry == Permutations(Handlers) \cup Permutations(Users)

\* The operations of Groups, and those of GroupContent by the table they write,
\* with those that change who may.
ByTable ==
    {{"invite", "remove", "exit", "role", "chat"},
     {"mute", "unmute", "remove", "invite"},
     {"upload_group_file", "delete_group_file", "update_file_pin_status", "exit", "role"},
     {"create_poll", "vote_poll", "close_poll", "exit"},
     {"create_announcement", "delete_announcement", "pin_announcement", "role"},
     {"create_group_category", "delete_group_category", "update_group_settings",
      "update_group", "update_group_category", "update_member_settings", "dismiss"}}
=============================================================================
