---------------------------- MODULE ToolPermission ----------------------------
(* check_permission of permissions/__init__.py: whether an action of a risk  *)
(* tier (0 silent, 1 auto, 2 confirm, 3 block) goes on under a permission    *)
(* mode, given who can be asked.  A front end is "none" (nobody), "console"  *)
(* (the terminal), "scope" (answers with the scope of an approval or a       *)
(* denial, like the broker) or "yesno" (answers with a Boolean).             *)
EXTENDS Naturals

Modes == {"silent", "balanced", "paranoid", "yolo"}
Fronts == {"none", "console", "scope", "yesno"}
BLOCK == 3

(* The lowest tier that needs an answer. *)
Threshold(mode) ==
    CASE mode = "silent" -> 3 [] mode = "paranoid" -> 1 [] mode = "yolo" -> 4 [] OTHER -> 2

Verdict(ok, why) == [approved |-> ok, reason |-> why]

(* What the one who is asked may answer, as the verdict it is read as.  A    *)
(* denial by a Boolean is no "user-denied", and under yolo any text is a yes. *)
Answers(mode, front) ==
    IF mode = "yolo"
    THEN CASE front = "scope" -> {Verdict(TRUE, "yolo-prompt")}
           [] OTHER -> {Verdict(b, "yolo-prompt") : b \in BOOLEAN}
    ELSE CASE front = "yesno" -> {Verdict(b, "asked") : b \in BOOLEAN}
           [] OTHER -> {Verdict(TRUE, "user-confirmed"), Verdict(FALSE, "user-denied")}

(* The verdicts an action of this tier may get. *)
Verdicts(mode, tier, front) ==
    IF mode = "yolo" /\ (tier # BLOCK \/ front = "none") THEN {Verdict(TRUE, "yolo-auto")}
    ELSE IF mode # "yolo" /\ tier < Threshold(mode) THEN {Verdict(TRUE, "auto")}
    ELSE IF front = "none" THEN {Verdict(FALSE, "permission-required")}
    ELSE Answers(mode, front)

=============================================================================
