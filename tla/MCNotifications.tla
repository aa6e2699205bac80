--------------------------- MODULE MCNotifications ---------------------------
(* One case, one reply, a head of department and an officer, the worker and  *)
(* a request.                                                                *)
EXTENDS Notifications
=============================================================================
