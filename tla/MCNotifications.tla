--------------------------- MODULE MCNotifications ---------------------------
EXTENDS Notifications

CONSTANTS d1, l1

\* One device of R listening, one user liking R's post.
MCDevices == {d1}
MCLikers == {l1}
=============================================================================
