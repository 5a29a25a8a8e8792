------------------------------ MODULE OtpGate ------------------------------
(***************************************************************************)
(* The one-time code of a call (backend/tools/wavvy_tools.py, send_otp and *)
(* verify_otp, on the fields otp_* of CallSession).  The code itself is    *)
(* not modelled: a guess is right or wrong.  The clock is the age of the   *)
(* last code sent: cooling for ten seconds, then live, and expired after   *)
(* five minutes.                                                           *)
(*                                                                         *)
(* A session runs these tools one after the other, each without an await,  *)
(* so a tool is one step.                                                  *)
(***************************************************************************)
EXTENDS Integers

CONSTANTS
  MaxSends,    \* codes a session may be sent (5)
  MaxGuesses,  \* guesses at a code before it locks (3)
  MaxTries     \* bound: calls of verify_otp on one code

ASSUME SendsAssumption == MaxSends \in Nat
ASSUME GuessesAssumption == MaxGuesses \in Nat \ {0}
ASSUME TriesAssumption == MaxTries \in Nat /\ MaxTries >= MaxGuesses

VARIABLES
  otpCode,      \* otp_code is set
  otpAge,       \* the time since otp_sent_at
  otpAttempts,  \* otp_attempts
  otpLocked,    \* otp_locked
  otpSends,     \* otp_resend_count
  otpVerified,  \* otp_verified
  otpMisses     \* history: wrong guesses compared with the last code

otpVars == <<otpCode, otpAge, otpAttempts, otpLocked, otpSends, otpVerified,
             otpMisses>>

Ages == {"none", "cooling", "live", "expired"}

OtpFlags ==
  /\ otpCode \in BOOLEAN
  /\ otpAge \in Ages
  /\ otpLocked \in BOOLEAN
  /\ otpVerified \in BOOLEAN

OtpCounters ==
  /\ otpAttempts \in 0..MaxTries
  /\ otpSends \in 0..MaxSends
  /\ otpMisses \in Nat

(* The fields of the session are of these types. *)
OtpTypeOK == OtpFlags /\ OtpCounters

OtpInit ==
  /\ otpCode = FALSE
  /\ otpAge = "none"
  /\ otpAttempts = 0
  /\ otpLocked = FALSE
  /\ otpSends = 0
  /\ otpVerified = FALSE
  /\ otpMisses = 0

-----------------------------------------------------------------------------
(* send_otp. *)

(* Variant: one code more than the limit. *)
SendResultOneMore ==
  IF otpAge = "cooling" THEN "otp_cooldown"
  ELSE IF otpSends > MaxSends THEN "otp_resend_limit"
  ELSE "otp_sent"

SendResult ==
  IF otpAge = "cooling" THEN "otp_cooldown"
  ELSE IF otpSends >= MaxSends THEN "otp_resend_limit"
  ELSE "otp_sent"

(* A new code forgets the guesses at the last one, its lock and the        *)
(* verification.                                                           *)
SendOtp ==
  IF SendResult = "otp_sent"
  THEN /\ otpCode' = TRUE
       /\ otpAge' = "cooling"
       /\ otpAttempts' = 0
       /\ otpLocked' = FALSE
       /\ otpSends' = otpSends + 1
       /\ otpVerified' = FALSE
       /\ otpMisses' = 0
  ELSE UNCHANGED otpVars

-----------------------------------------------------------------------------
(* verify_otp. *)

(* Variant: the guess before the limit does not lock. *)
LocksLate(n) == n > MaxGuesses

(* A wrong guess that makes n guesses at the code locks the gate. *)
Locks(n) == n >= MaxGuesses

(* Variant: the guess is compared before the age is looked at. *)
VerifyResultAnyAge(right) ==
  IF ~otpCode THEN "no_otp_pending"
  ELSE IF otpLocked THEN "otp_max_attempts"
  ELSE IF right THEN "otp_verified"
  ELSE IF otpAge = "expired" THEN "otp_expired"
  ELSE IF Locks(otpAttempts + 1) THEN "otp_max_attempts"
  ELSE "otp_wrong"

(* The order of its checks: a code, its age, its lock, the digits. *)
VerifyResult(right) ==
  IF ~otpCode THEN "no_otp_pending"
  ELSE IF otpAge = "expired" THEN "otp_expired"
  ELSE IF otpLocked THEN "otp_max_attempts"
  ELSE IF right THEN "otp_verified"
  ELSE IF Locks(otpAttempts + 1) THEN "otp_max_attempts"
  ELSE "otp_wrong"

(* Right guesses count as well, and the code stays usable: MaxTries caps   *)
(* the number of calls on one code.                                        *)
VerifyOtp(right) ==
  LET result   == VerifyResult(right)
      compared == otpCode /\ otpAge # "expired" /\ ~otpLocked
  IN
  /\ compared => otpAttempts < MaxTries
  /\ otpCode' = (otpCode /\ result # "otp_expired")
  /\ otpVerified' = (otpVerified \/ result = "otp_verified")
  /\ otpLocked' = (otpLocked \/ result = "otp_max_attempts")
  /\ otpAttempts' = otpAttempts + (IF compared THEN 1 ELSE 0)
  /\ otpMisses' = otpMisses + (IF compared /\ ~right THEN 1 ELSE 0)
  /\ UNCHANGED <<otpAge, otpSends>>

-----------------------------------------------------------------------------
(* initiate_refund asks for a fresh OTP before the next sensitive action;  *)
(* the code itself stays.                                                  *)
RefundResets ==
  /\ otpVerified
  /\ otpVerified' = FALSE
  /\ UNCHANGED <<otpCode, otpAge, otpAttempts, otpLocked, otpSends, otpMisses>>

(* The clock passes ten seconds, or five minutes, after the last send. *)
Age ==
  /\ \/ otpAge = "cooling" /\ otpAge' = "live"
     \/ otpAge = "live" /\ otpAge' = "expired"
  /\ UNCHANGED <<otpCode, otpAttempts, otpLocked, otpSends, otpVerified,
                 otpMisses>>

OtpNext ==
  \/ SendOtp
  \/ \E right \in BOOLEAN : VerifyOtp(right)
  \/ RefundResets
  \/ Age

OtpSpec == OtpInit /\ [][OtpNext]_otpVars

-----------------------------------------------------------------------------
(* A session compares at most MaxGuesses wrong guesses with each of at     *)
(* most MaxSends codes ("3-attempt lock", "5 sends/session max"), although *)
(* a new code forgets the lock and right guesses count towards it.         *)
GuessesBounded ==
  /\ otpMisses <= MaxGuesses
  /\ otpSends <= MaxSends

(* The gate opens only on a code that is neither locked nor older than     *)
(* five minutes, however long ago it was sent and whatever was guessed     *)
(* before; a locked gate needs another code.                               *)
OpensOnLiveCode ==
  [][~otpVerified /\ otpVerified' =>
       otpAge \in {"cooling", "live"} /\ ~otpLocked /\ otpMisses < MaxGuesses]_otpVars

(* An expired or exhausted session never opens again: once the sends are   *)
(* used up and the last code is locked or found expired, no call of        *)
(* send_otp or verify_otp verifies the caller.                             *)
Spent ==
  /\ otpSends = MaxSends
  /\ ~otpCode \/ otpLocked \/ otpAge = "expired"
  /\ ~otpVerified

SpentStaysSpent == [][Spent => Spent']_otpVars
=============================================================================
