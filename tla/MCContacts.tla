----------------------------- MODULE MCContacts -----------------------------
(* Contacts for TLC: model values for the ids, their symmetry, and which   *)
(* operations meet: emails, pictures, bodies that name pictures, pages and *)
(* the dashboard.                                                          *)
EXTENDS Contacts, TLC

MCMixes == {{"create", "update", "convert", "delete"},
            {"create", "delete", "upload", "unpicture"},
            {"create", "update", "upload"},
            {"create", "convert", "upload"},
            {"create", "delete", "browse"},
            {"create", "convert", "delete", "dashboard"}}

Symmetry == Permutations(Requests) \cup Permutations(Plugs)
            \cup Permutations(Files)

=============================================================================
