SPECIFICATION Spec
CONSTANTS
    Sid = {1}
    Key = {0, 1}
    Count = {1, 2}
    MAX_CONCURRENT_SESSIONS = 2
    MAX_EVENTS_PER_SESSION = 2
    SESSION_IDLE_TTL = 1
    MAX_WALL_SECONDS = 1
    MaxFrame = 2
PROPERTY AudioSinceLastDrain
