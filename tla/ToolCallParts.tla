----------------------------- MODULE ToolCallParts -----------------------------
(***************************************************************************)
(* The parts of the toolkit around the call of a tool that share no state: *)
(* the rules for arguments, the paths, the responses, the time a tool has, *)
(* the metrics and the access to resources.  A behaviour exercises one of  *)
(* them, the subject; a text that is its input grows character by          *)
(* character.                                                              *)
(***************************************************************************)
EXTENDS InputValidation, PathValidator, ResponseSanitizer, ToolExecutionGuard, ResourceMonitor,
        RoleBasedAccessControl

CONSTANTS
    Alphabet,   \* for each part that is given texts their characters
    MaxText     \* bound of their length

VARIABLES subject, text

partsVars == <<subject, text, rulesVars, pathVars, executionVars, monitorVars, rbacVars>>

TextSubjects == {"rules", "path", "response"}

ASSUME TextAssumption == MaxText \in [TextSubjects -> Nat] /\ DOMAIN Alphabet = TextSubjects

PartsInit ==
    /\ subject \in TextSubjects \cup {"time", "metrics", "resources"}
    /\ text = <<>>
    /\ RulesInit /\ PathInit /\ GuardInit /\ MonitorInit /\ RbacInit

Grow ==
    /\ subject \in TextSubjects /\ Len(text) < MaxText[subject]
    /\ \E c \in Alphabet[subject] : text' = Append(text, c)
    /\ UNCHANGED <<subject, rulesVars, pathVars, executionVars, monitorVars, rbacVars>>

PartsNext ==
    \/ Grow
    \/ /\ subject = "rules" /\ text = <<>> /\ RulesNext
       /\ UNCHANGED <<subject, text, pathVars, executionVars, monitorVars, rbacVars>>
    \/ /\ subject = "path" /\ text = <<>> /\ PathNext
       /\ UNCHANGED <<subject, text, rulesVars, executionVars, monitorVars, rbacVars>>
    \/ /\ subject = "time" /\ GuardNext
       /\ UNCHANGED <<subject, text, rulesVars, pathVars, monitorVars, rbacVars>>
    \/ /\ subject = "metrics" /\ MonitorNext
       /\ UNCHANGED <<subject, text, rulesVars, pathVars, executionVars, rbacVars>>
    \/ /\ subject = "resources" /\ RbacNext
       /\ UNCHANGED <<subject, text, rulesVars, pathVars, executionVars, monitorVars>>

PartsSpec == PartsInit /\ [][PartsNext]_partsVars

-----------------------------------------------------------------------------
(* An accepted call follows the rules given last for its tool: each value  *)
(* follows every rule for it, strict rules know every argument             *)
(* (validate_arguments).  A shell reads every escaped argument as one word *)
(* (escape_shell_argument).                                                *)
ArgumentsAreChecked ==
    subject = "rules" => (text = <<>> => AcceptedCallsFollowRules) /\ EscapedIsOneWord(text)

(* is_safe_path accepts no path that leads out of a base directory that is *)
(* given, whatever links, dots and separators it goes through, refuses no  *)
(* plain one that stays below it, and accepts nothing before configure.    *)
PathsAreConfined ==
    subject = "path" => SafeMeansInside(text) /\ UnconfiguredIsUnsafe(text)

(* What sanitize lets through is one JSON string and means the text that   *)
(* was cut and redacted, with the mark of the cut: SanitizedTextIsExact.   *)
(* ToolExecutionGuard::validate_output finds no control character in it if *)
(* it was escaped, but for one that was cut and not redacted the limit     *)
(* under which it was cut is too low.                                      *)
ResponsesAreExact ==
    subject = "response" =>
        /\ SanitizedTextIsExact(text)
        /\ \A config \in SanitizeConfigs :
             LET r == Sanitize(text, config)
             IN r # Refused =>
                  /\ config.escape => ValidateOutput(r, Len(r))
                  /\ Len(text) > MaxResponse /\ ~config.redact => ~ValidateOutput(r, MaxResponse)

(* What sanitize lets through means nothing with a pattern or a path in    *)
(* it, whatever the cut and the redaction put together anew, and is just   *)
(* the text that was cut where it held no slash.                           *)
ResponsesAreClean == subject = "response" => ReleasedTextIsClean(text)
=============================================================================
