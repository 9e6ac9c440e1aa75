---------------------------- MODULE LibusbError ----------------------------
(***************************************************************************)
(* The error context of the libusb backend (hidapi_error_ctx): the last    *)
(* error as a code and a context, and beside it the text made from an      *)
(* earlier error, kept for the next hid_error.  One context is global, one *)
(* belongs to each device.                                                 *)
(*                                                                         *)
(* A text is modelled by the code and the context (or message) it is made  *)
(* from.                                                                   *)
(***************************************************************************)
EXTENDS Integers

LIBUSB_SUCCESS == 0
StringError == 1        \* the code of every error that is not libusb's
NULL == ""              \* no context, no message

Text(code, context) == [code |-> code, context |-> context]
NoText == Text(LIBUSB_SUCCESS, NULL)
OutOfMemory == Text(StringError, "Error string memory allocation error")

CleanContext ==
    [error_code |-> LIBUSB_SUCCESS, error_context |-> NULL,
     last_error_code_cache |-> LIBUSB_SUCCESS, last_error_context_cache |-> NULL,
     last_error_str |-> NoText]

(* The code and the context only: the text waits for hid_error. *)
register_libusb_error(err, code, context) ==
    [err EXCEPT !.error_code = code, !.error_context = context]

(* The text at once, unless its memory cannot be had, with the cache       *)
(* marked as fitting it.                                                   *)
register_string_error(err, message, allocated) ==
    [error_code |-> StringError, error_context |-> NULL,
     last_error_code_cache |-> StringError, last_error_context_cache |-> NULL,
     last_error_str |-> IF allocated THEN Text(StringError, message) ELSE NoText]

(* Mutant: the context is not compared. *)
CacheFits_CodeOnly(err) == err.error_code = err.last_error_code_cache

(* Does the kept text belong to the last error? *)
CacheFits(err) ==
    /\ err.error_code = err.last_error_code_cache
    /\ err.error_context = err.last_error_context_cache

(* hid_error: what it returns ... *)
ErrorAnswer(err, allocated) ==
    IF err.error_code = LIBUSB_SUCCESS THEN NoText
    ELSE IF CacheFits(err)
         THEN IF err.last_error_str # NoText THEN err.last_error_str ELSE OutOfMemory
         ELSE IF allocated THEN Text(err.error_code, err.error_context) ELSE OutOfMemory

(* ... and the context it leaves. *)
AfterAnswer(err, allocated) ==
    IF err.error_code = LIBUSB_SUCCESS \/ CacheFits(err) THEN err
    ELSE IF allocated
         THEN [err EXCEPT !.last_error_code_cache = err.error_code,
                          !.last_error_context_cache = err.error_context,
                          !.last_error_str = Text(err.error_code, err.error_context)]
         ELSE [err EXCEPT !.last_error_code_cache = LIBUSB_SUCCESS,
                          !.last_error_context_cache = NULL,
                          !.last_error_str = NoText]
=============================================================================
