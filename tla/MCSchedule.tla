----------------------------- MODULE MCSchedule -----------------------------
(* Schedule for TLC: a calendar of two days, the forms that matter on it    *)
(* (both dates, one of them, in order, on one instant and reversed), and    *)
(* which operations meet.                                                   *)
EXTENDS Schedule, TLC

MCForms == {<<0, 5>>, <<4, 5>>, <<2, 2>>, <<4, 0>>, <<NoDate, 1>>,
            <<2, NoDate>>}

MCMixes == {{"create_event", "update_event", "delete_event"},
            {"create_event", "update_event", "delete_event", "create_agenda"},
            {"create_event", "create_agenda", "update_entry", "overview"},
            {"create_event", "create_agenda", "delete_entry", "overview"},
            {"create_event", "delete_event", "create_expense", "update_entry",
             "delete_entry"}}

Symmetry == Permutations(Requests) \cup Permutations(Agenda)

=============================================================================
