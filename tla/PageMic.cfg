\* Two clips, in either capture; one try for Cloudflare's script.
CONSTANTS
    Clips = {x, y}
    Typed = {}
    Actions = {chat, transcribe}
    ChatAction = chat
    ClipAction = transcribe
    MaxScriptTries = 1
    Nobody = Nobody
    Kinds = {"hosted", "media"}
SPECIFICATION Spec
CHECK_DEADLOCK FALSE
INVARIANTS TokenPaysOnce MicReleased NothingSaidNothingSent OneTurnAtATime
PROPERTIES RecordingEnds
